---- MODULE Spec2Model ----
(***************************************************************************)
(* Model of the markdown engine of nia-vault:                              *)
(*   src/src/lib/markdown-parser.ts  (parseInlineContent, tokenize)        *)
(*   src/unnamed/part_015            (renderToken, renderMarkdown)         *)
(*                                                                         *)
(* A JavaScript string is a sequence of one-character strings; positions   *)
(* are 0-based as in the source, so the character at position p of str is  *)
(* str[p + 1].                                                             *)
(***************************************************************************)
EXTENDS Integers, Sequences, FiniteSets, TLC

VARIABLES
    inlineText,         \* argument of parseInlineContent
    inlinePc,           \* "call" before the call, "done" after it returned
    inlineOut,          \* what parseInlineContent emitted, with source spans
    text,               \* argument of tokenize and of renderMarkdown
    pc,                 \* "call", "scan" (the while loop), "done", "rendered"
    lines,              \* tokenize: text.split("\n")
    i,                  \* tokenize: index of the line scanned next
    inCodeBlock,        \* tokenize: inside a fence
    codeBlockContent,   \* tokenize: lines accumulated in the fence
    codeBlockLanguage,  \* tokenize: language of the open fence, or Undefined
    tokens,             \* tokenize: tokens pushed so far; the result at "done"
    rendered,           \* result of renderMarkdown, at "rendered"
    colorLevel,         \* chalk's colour level: 0 when colours are off
    lastIndex,          \* lastIndex of each expression of PATTERNS (module state)
    calls,              \* number of calls started so far
    earlier             \* <<>> or the first completed call: its text and
                        \* results, and whether a call on another text
                        \* has completed since

inlineVars == <<inlineText, inlinePc, inlineOut>>

blockVars == <<text, pc, lines, i, inCodeBlock, codeBlockContent,
               codeBlockLanguage, tokens, rendered, colorLevel, lastIndex,
               calls, earlier>>

vars == <<inlineVars, blockVars>>

----------------------------------------------------------------------------
(* Strings *)

\* The backtick character (U+0060)
BT == "BT"
\* The newline character
NL == "\n"

\* Values that are no string: each is a one-element sequence whose element
\* is not a character.
Null == <<"null">>
Undefined == <<"undefined">>

\* The element of a one-element set.  Only({F(x) : x \in {e}}) is F(e) with
\* e evaluated once, as an assignment to a local x evaluates it once.
Only(S) == CHOOSE x \in S : TRUE

\* JavaScript truthiness of a string, null or undefined
Truthy(v) == v \notin {Null, Undefined, <<>>}

\* str.slice(a, b) for 0 <= a <= b <= str.length
Slice(str, a, b) == SubSeq(str, a + 1, b)

\* Position of the first character of str in the set cs at or after
\* position p, or Len(str) when there is none.
RECURSIVE FirstIn(_, _, _)
FirstIn(str, cs, p) ==
    IF p >= Len(str) THEN Len(str)
    ELSE IF str[p + 1] \in cs THEN p
    ELSE FirstIn(str, cs, p + 1)

\* TRUE iff position p exists in str and holds the character c
Is(str, p, c) == p >= 0 /\ p < Len(str) /\ str[p + 1] = c

----------------------------------------------------------------------------
(* Inline regular expressions of findAllMatches.  Each operator gives the   *)
(* end position (exclusive) of the match of the expression that starts at   *)
(* position p, or -1 when the expression does not match there.  In every    *)
(* expression the negated class is greedy and is followed by a character    *)
(* outside the class, so the class takes the whole run up to the first      *)
(* closing character and backtracking cannot find another match.            *)

\* /BT([^BT]+)BT/ where BT stands for the backtick character
codeRegexAt(str, p) ==
    LET q == FirstIn(str, {BT}, p + 1)
    IN  IF Is(str, p, BT) /\ q >= p + 2 /\ q < Len(str) THEN q + 1 ELSE -1

\* /\[([^\]]+)\]\(([^)]+)\)/
linkRegexAt(str, p) ==
    LET q == FirstIn(str, {"]"}, p + 1)
        r == FirstIn(str, {")"}, q + 2)
    IN  IF /\ Is(str, p, "[") /\ q >= p + 2 /\ q < Len(str)
           /\ Is(str, q + 1, "(") /\ r >= q + 3 /\ r < Len(str)
        THEN r + 1 ELSE -1

\* /\*\*([^*]+)\*\*/ with d = "*", /__([^_]+)__/ with d = "_"
boldRegexAt(str, p, d) ==
    LET q == FirstIn(str, {d}, p + 2)
    IN  IF /\ Is(str, p, d) /\ Is(str, p + 1, d)
           /\ q >= p + 3 /\ q < Len(str) /\ Is(str, q + 1, d)
        THEN q + 2 ELSE -1

\* The italic expression without the lookbehind before the opening
\* delimiter
italicRegexAtNoLookbehind(str, p, d) ==
    LET q == FirstIn(str, {d}, p + 1)
    IN  IF /\ Is(str, p, d) /\ ~Is(str, p + 1, d)
           /\ q >= p + 2 /\ q < Len(str) /\ ~Is(str, q + 1, d)
        THEN q + 1 ELSE -1

\* The italic expression without the lookahead after the closing delimiter
italicRegexAtNoLookahead(str, p, d) ==
    LET q == FirstIn(str, {d}, p + 1)
    IN  IF /\ Is(str, p, d) /\ ~Is(str, p - 1, d) /\ ~Is(str, p + 1, d)
           /\ q >= p + 2 /\ q < Len(str)
        THEN q + 1 ELSE -1

\* /(?<!\*)\*(?!\*)([^*]+)(?<!\*)\*(?!\*)/ with d = "*", and the same with
\* "_".  The lookbehind before the closing delimiter always holds: the
\* character before it belongs to the class [^d].
italicRegexAt(str, p, d) ==
    LET q == FirstIn(str, {d}, p + 1)
    IN  IF /\ Is(str, p, d) /\ ~Is(str, p - 1, d) /\ ~Is(str, p + 1, d)
           /\ q >= p + 2 /\ q < Len(str) /\ ~Is(str, q + 1, d)
        THEN q + 1 ELSE -1

RegexAt(re, str, p) ==
    CASE re = "code"             -> codeRegexAt(str, p)
      [] re = "link"             -> linkRegexAt(str, p)
      [] re = "boldAsterisk"     -> boldRegexAt(str, p, "*")
      [] re = "boldUnderscore"   -> boldRegexAt(str, p, "_")
      [] re = "italicAsterisk"   -> italicRegexAt(str, p, "*")
      [] re = "italicUnderscore" -> italicRegexAt(str, p, "_")

\* The InlineMatch pushed for a match of re on [p, e)
InlineMatchOf(re, str, p, e) ==
    CASE re = "code" ->
           [index |-> p, length |-> e - p, type |-> "inline_code",
            content |-> Slice(str, p + 1, e - 1)]
      [] re = "link" ->
           LET q == FirstIn(str, {"]"}, p + 1)
           IN  [index |-> p, length |-> e - p, type |-> "link",
                content |-> Slice(str, p + 1, q),
                metadata |-> [url |-> Slice(str, q + 2, e - 1)]]
      [] re \in {"boldAsterisk", "boldUnderscore"} ->
           [index |-> p, length |-> e - p, type |-> "bold",
            content |-> Slice(str, p + 2, e - 2)]
      [] re \in {"italicAsterisk", "italicUnderscore"} ->
           [index |-> p, length |-> e - p, type |-> "italic",
            content |-> Slice(str, p + 1, e - 1)]

\* regex.exec(str) of a global expression whose lastIndex is from: the
\* position of the leftmost match at or after from, or -1 (null).
RECURSIVE ExecFrom(_, _, _)
ExecFrom(re, str, from) ==
    IF from >= Len(str) THEN -1
    ELSE IF RegexAt(re, str, from) # -1 THEN from
    ELSE ExecFrom(re, str, from + 1)

\* hasOverlap(match, existing), match given by match.index and
\* match[0].length
hasOverlap(index, length, existing) ==
    \E k \in 1..Len(existing) :
        LET m == existing[k]
        IN  \/ (index >= m.index /\ index < m.index + m.length)
            \/ (index + length > m.index
                /\ index + length <= m.index + m.length)

\* One exec loop of findAllMatches: every match of re from lastIndex on,
\* pushed on matches unless filter holds and it overlaps.  ExecLoopAt is
\* the loop once exec has returned the match at position p (-1 for null),
\* ExecLoopBody the body of the loop for the match on [p, e).
RECURSIVE ExecLoop(_, _, _, _, _)
RECURSIVE ExecLoopAt(_, _, _, _, _)
RECURSIVE ExecLoopBody(_, _, _, _, _, _)
ExecLoop(re, str, from, matches, filter) ==
    Only({ExecLoopAt(re, str, p, ms, filter) :
             p \in {ExecFrom(re, str, from)}, ms \in {matches}})

ExecLoopAt(re, str, p, matches, filter) ==
    IF p = -1 THEN matches
    ELSE Only({ExecLoopBody(re, str, p, e, matches, filter) :
                  e \in {RegexAt(re, str, p)}})

ExecLoopBody(re, str, p, e, matches, filter) ==
    ExecLoop(re, str, e,
        IF filter /\ hasOverlap(p, e - p, matches)
        THEN matches
        ELSE Append(matches, InlineMatchOf(re, str, p, e)),
        filter)

\* matches.sort((a, b) => a.index - b.index): a stable insertion sort
\* x inserted in the sorted sequence rest after the elements whose index
\* is not greater
Insert(rest, x) ==
    LET n == Cardinality({k \in 1..Len(rest) : rest[k].index <= x.index})
    IN  SubSeq(rest, 1, n) \o <<x>> \o SubSeq(rest, n + 1, Len(rest))

RECURSIVE SortByIndex(_)
SortByIndex(ms) ==
    IF Len(ms) <= 1 THEN ms
    ELSE Only({Insert(rest, ms[Len(ms)]) :
                  rest \in {SortByIndex(SubSeq(ms, 1, Len(ms) - 1))}})

\* The six loops of findAllMatches run on the expressions res[k..] in
\* turn, the first without the overlap test
RECURSIVE ExecLoops(_, _, _, _)
ExecLoops(res, k, str, matches) ==
    IF k > Len(res) THEN matches
    ELSE ExecLoops(res, k + 1, str, ExecLoop(res[k], str, 0, matches, k > 1))

findAllMatches(str) ==
    Only({SortByIndex(matches) :
             matches \in {ExecLoops(<<"code", "link", "boldAsterisk",
                                      "boldUnderscore", "italicAsterisk",
                                      "italicUnderscore">>, 1, str, <<>>)}})

\* The InlineToken built from a match (lines 203-210)
TokenOfMatch(m) ==
    IF "metadata" \in DOMAIN m
    THEN [type |-> m.type, content |-> m.content, metadata |-> m.metadata]
    ELSE [type |-> m.type, content |-> m.content]

\* The for loop of parseInlineContent over matches[k..], with cursor
\* currentIndex.  Each emitted token is paired with the source span
\* [start, end) it was taken from.
\* The text token of txt.slice(from, to), with its span
TextSpan(txt, from, to) ==
    [token |-> [type |-> "text", content |-> Slice(txt, from, to)],
     start |-> from, end |-> to]

\* The loop with a text token before every match, and one after the last
RECURSIVE WalkMatchesTextAlways(_, _, _, _)
WalkMatchesTextAlways(txt, matches, k, currentIndex) ==
    IF k > Len(matches)
    THEN <<TextSpan(txt, currentIndex, Len(txt))>>
    ELSE <<TextSpan(txt, currentIndex, matches[k].index)>>
         \o <<[token |-> TokenOfMatch(matches[k]),
               start |-> matches[k].index,
               end |-> matches[k].index + matches[k].length]>>
         \o WalkMatchesTextAlways(txt, matches, k + 1,
                                  matches[k].index + matches[k].length)

RECURSIVE WalkMatches(_, _, _, _)
WalkMatches(txt, matches, k, currentIndex) ==
    IF k > Len(matches)
    THEN IF currentIndex < Len(txt)
         THEN <<TextSpan(txt, currentIndex, Len(txt))>>
         ELSE <<>>
    ELSE (IF matches[k].index > currentIndex
          THEN <<TextSpan(txt, currentIndex, matches[k].index)>>
          ELSE <<>>)
         \o <<[token |-> TokenOfMatch(matches[k]),
               start |-> matches[k].index,
               end |-> matches[k].index + matches[k].length]>>
         \o WalkMatches(txt, matches, k + 1,
                        matches[k].index + matches[k].length)

\* Lines 187-223 of parseInlineContent, matches being findAllMatches(txt)
TokensOfMatches(txt, matches) ==
    IF Len(matches) = 0
    THEN <<[token |-> [type |-> "text", content |-> txt],
            start |-> 0, end |-> Len(txt)]>>
    ELSE WalkMatches(txt, matches, 1, 0)

\* parseInlineContent with the source span of every token
parseInlineSpans(txt) ==
    IF ~Truthy(txt) THEN <<>>
    ELSE Only({TokensOfMatches(txt, matches) :
                  matches \in {findAllMatches(txt)}})

\* The tokens of a sequence of tokens with spans
TokensOf(out) == [k \in 1..Len(out) |-> out[k].token]

parseInlineContent(txt) ==
    Only({TokensOf(out) : out \in {parseInlineSpans(txt)}})

----------------------------------------------------------------------------
(* Character classes of the block patterns, restricted to the characters    *)
(* the model draws lines from.                                              *)

\* \s
Whitespace == {" ", "\t", NL, "\r"}
\* \d
Digits == {"0", "1", "2", "3", "4", "5", "6", "7", "8", "9"}
\* \w, the letters being those of the model's lines
WordChars == Digits \cup {"_", "a", "b", "j", "s"}
\* what . does not match
LineTerminators == {NL, "\r"}

\* Position of the first character of str outside the set cs at or after
\* position p, or Len(str): the end of a greedy run of the class cs.
RECURSIVE SkipWhile(_, _, _)
SkipWhile(str, cs, p) ==
    IF p >= Len(str) THEN Len(str)
    ELSE IF str[p + 1] \notin cs THEN p
    ELSE SkipWhile(str, cs, p + 1)

\* TRUE iff every character of str from position p on is matched by .
DotToEnd(str, p) == \A k \in (p + 1)..Len(str) : str[k] \notin LineTerminators

\* The tail \s+(.+)$ of a pattern, tried at position m: the position where
\* group (.+) starts, or -1.  \s+ takes the whole whitespace run, and gives
\* its last character back to (.+) when the run reaches the end of the line.
ContentStart(line, m) ==
    LET w == SkipWhile(line, Whitespace, m)
    IN  IF w > m /\ w < Len(line) /\ DotToEnd(line, w) THEN w
        ELSE IF w = Len(line) /\ w - m >= 2 /\ DotToEnd(line, w - 1) THEN w - 1
        ELSE -1

\* str.split("\n")
RECURSIVE Split(_)
RECURSIVE SplitAt(_, _)
Split(str) == Only({SplitAt(s, FirstIn(s, {NL}, 0)) : s \in {str}})

\* n being the position of the first newline of str, or str.length
SplitAt(str, n) ==
    IF n = Len(str) THEN <<str>>
    ELSE <<Slice(str, 0, n)>> \o Split(Slice(str, n + 1, Len(str)))

\* strs.join("\n")
RECURSIVE Join(_)
Join(strs) ==
    IF Len(strs) = 0 THEN <<>>
    ELSE IF Len(strs) = 1 THEN strs[1]
    ELSE strs[1] \o <<NL>> \o Join(Tail(strs))

\* line.trim() === ""
IsBlank(line) == \A k \in 1..Len(line) : line[k] \in Whitespace

\* Number.parseInt(digits, 10) of a non-empty run of digits
DigitValue(c) ==
    CASE c = "0" -> 0 [] c = "1" -> 1 [] c = "2" -> 2 [] c = "3" -> 3
      [] c = "4" -> 4 [] c = "5" -> 5 [] c = "6" -> 6 [] c = "7" -> 7
      [] c = "8" -> 8 [] c = "9" -> 9

RECURSIVE ParseInt(_)
ParseInt(digits) ==
    IF Len(digits) = 0 THEN 0
    ELSE 10 * ParseInt(SubSeq(digits, 1, Len(digits) - 1))
         + DigitValue(digits[Len(digits)])

----------------------------------------------------------------------------
(* PATTERNS.  Match(name, line) is line.match(PATTERNS[name]) for an        *)
(* expression without the g flag: <<>> for null, else the matched text      *)
(* followed by the captured groups.                                         *)

PatternNames == {"header", "codeBlockStart", "codeBlockEnd", "unorderedList",
                 "orderedList", "blockquote"}

\* /^(#{1,6})\s+(.+)$/
headerExec(line) ==
    LET h == SkipWhile(line, {"#"}, 0)
        c == ContentStart(line, h)
    IN  IF h >= 1 /\ h <= 6 /\ c # -1
        THEN <<line, Slice(line, 0, h), Slice(line, c, Len(line))>>
        ELSE <<>>

\* /^BTBTBT(\w*)$/
codeBlockStartExec(line) ==
    IF /\ Len(line) >= 3
       /\ \A k \in 1..3 : line[k] = BT
       /\ SkipWhile(line, WordChars, 3) = Len(line)
    THEN <<line, Slice(line, 3, Len(line))>>
    ELSE <<>>

\* /^BTBTBT$/
codeBlockEndExec(line) == IF line = <<BT, BT, BT>> THEN <<line>> ELSE <<>>

\* /^(\s*)[-*]\s+(.+)$/
unorderedListExec(line) ==
    LET w == SkipWhile(line, Whitespace, 0)
        c == ContentStart(line, w + 1)
    IN  IF w < Len(line) /\ line[w + 1] \in {"-", "*"} /\ c # -1
        THEN <<line, Slice(line, 0, w), Slice(line, c, Len(line))>>
        ELSE <<>>

\* /^(\s*)(\d+)\.\s+(.+)$/
orderedListExec(line) ==
    LET w == SkipWhile(line, Whitespace, 0)
        d == SkipWhile(line, Digits, w)
        c == ContentStart(line, d + 1)
    IN  IF d > w /\ Is(line, d, ".") /\ c # -1
        THEN <<line, Slice(line, 0, w), Slice(line, w, d),
               Slice(line, c, Len(line))>>
        ELSE <<>>

\* /^>\s*(.*)$/
blockquoteExec(line) ==
    LET w == SkipWhile(line, Whitespace, 1)
    IN  IF Is(line, 0, ">") /\ DotToEnd(line, w)
        THEN <<line, Slice(line, w, Len(line))>>
        ELSE <<>>

Match(name, line) ==
    CASE name = "header"         -> headerExec(line)
      [] name = "codeBlockStart" -> codeBlockStartExec(line)
      [] name = "codeBlockEnd"   -> codeBlockEndExec(line)
      [] name = "unorderedList"  -> unorderedListExec(line)
      [] name = "orderedList"    -> orderedListExec(line)
      [] name = "blockquote"     -> blockquoteExec(line)

\* A PATTERNS in which codeBlockEnd carries the g flag
PatternIsGlobalEnd(name) == name = "codeBlockEnd"

\* TRUE iff PATTERNS[name] carries the g flag: none does
PatternIsGlobal(name) == FALSE

\* PATTERNS[name].test(line) with the expression's lastIndex being li: the
\* result and the lastIndex left behind.  Without the g flag the search
\* starts at 0 and lastIndex is not written.  With it the search starts at
\* lastIndex; every pattern begins with ^, so it can only match from 0, and
\* it ends with $ (or .* to the end), so a match ends at the end of line.
RegExpTest(name, line, li) ==
    IF ~PatternIsGlobal(name)
    THEN [result |-> Match(name, line) # <<>>, lastIndex |-> li]
    ELSE IF li = 0 /\ Match(name, line) # <<>>
         THEN [result |-> TRUE, lastIndex |-> Len(line)]
         ELSE [result |-> FALSE, lastIndex |-> 0]

----------------------------------------------------------------------------
(* tokenize *)

\* A code_block token whose metadata is set whatever the language
CodeTokenAlwaysMetadata(content, language) ==
    [type |-> "code_block", content |-> Join(content),
     metadata |-> [language |-> language]]

\* The code_block token pushed at lines 275-282 and 406-413
CodeToken(content, language) ==
    IF Truthy(language)
    THEN [type |-> "code_block", content |-> Join(content),
          metadata |-> [language |-> language]]
    ELSE [type |-> "code_block", content |-> Join(content)]

\* A blockquote or paragraph token left without children
InlineBlockTokenNoChildren(type, content) ==
    [type |-> type, content |-> content]

\* A token with inline children and no metadata (blockquote, paragraph)
InlineBlockToken(type, content) ==
    Only({[type |-> type, content |-> c, children |-> parseInlineContent(c)] :
             c \in {content}})

\* The header token of lines 298-305
HeaderToken(headerMatch) ==
    [type |-> "header", content |-> headerMatch[3],
     children |-> parseInlineContent(headerMatch[3]),
     metadata |-> [level |-> Len(headerMatch[2])]]

\* The list_item token of lines 338-345
UnorderedToken(unorderedMatch) ==
    [type |-> "list_item", content |-> unorderedMatch[3],
     children |-> parseInlineContent(unorderedMatch[3]),
     metadata |-> [indent |-> Len(unorderedMatch[2]), ordered |-> FALSE]]

\* The list_item token with the fallback number of line 354
OrderedTokenNumberOne(orderedMatch) ==
    [type |-> "list_item", content |-> orderedMatch[4],
     children |-> parseInlineContent(orderedMatch[4]),
     metadata |-> [indent |-> Len(orderedMatch[2]), ordered |-> TRUE,
                   number |-> 1]]

\* The list_item token of lines 353-361
OrderedToken(orderedMatch) ==
    [type |-> "list_item", content |-> orderedMatch[4],
     children |-> parseInlineContent(orderedMatch[4]),
     metadata |-> [indent |-> Len(orderedMatch[2]), ordered |-> TRUE,
                   number |-> ParseInt(orderedMatch[3])]]

\* The branch the loop body takes on a line outside a fence, in the order
\* of the tests of lines 263-370.
Dispatch(line) ==
    IF codeBlockStartExec(line) # <<>> THEN "fenceOpen"
    ELSE IF headerExec(line) # <<>> THEN "header"
    ELSE IF blockquoteExec(line) # <<>> THEN "blockquote"
    ELSE IF unorderedListExec(line) # <<>> THEN "unorderedList"
    ELSE IF orderedListExec(line) # <<>> THEN "orderedList"
    ELSE IF IsBlank(line) THEN "blank"
    ELSE "paragraph"

\* The inner loop of lines 315-325 started at index k: the index of the
\* first line at or after k that is no blockquote line, or lns.length.
RECURSIVE BlockquoteEnd(_, _)
BlockquoteEnd(lns, k) ==
    IF k >= Len(lns) THEN k
    ELSE IF blockquoteExec(lns[k + 1]) = <<>> THEN k
    ELSE BlockquoteEnd(lns, k + 1)

\* PATTERNS[names[1]].test(line) || PATTERNS[names[2]].test(line) || ...
\* with li the lastIndex of every pattern
\* TestAnyAfter is the disjunction once its first test has returned t.
RECURSIVE TestAny(_, _, _)
RECURSIVE TestAnyAfter(_, _, _, _)
TestAny(names, line, li) ==
    IF Len(names) = 0 THEN [result |-> FALSE, lastIndex |-> li]
    ELSE Only({TestAnyAfter(names, line, li, t) :
                  t \in {RegExpTest(names[1], line, li[names[1]])}})

TestAnyAfter(names, line, li, t) ==
    IF t.result
    THEN [result |-> TRUE, lastIndex |-> [li EXCEPT ![names[1]] = t.lastIndex]]
    ELSE TestAny(Tail(names), line, [li EXCEPT ![names[1]] = t.lastIndex])

\* A condition that also stops at every line starting with #, header or not
ParagraphStopsAtHash(line, li) ==
    IF IsBlank(line) \/ Is(line, 0, "#") THEN [result |-> TRUE, lastIndex |-> li]
    ELSE TestAny(<<"header", "codeBlockStart", "blockquote",
                   "unorderedList", "orderedList">>, line, li)

\* A condition with nextLine === "" for nextLine.trim() === ""
ParagraphStopsAtEmptyOnly(line, li) ==
    IF line = <<>> THEN [result |-> TRUE, lastIndex |-> li]
    ELSE TestAny(<<"header", "codeBlockStart", "blockquote",
                   "unorderedList", "orderedList">>, line, li)

\* The condition of lines 379-386: the paragraph loop stops at line
ParagraphStops(line, li) ==
    IF IsBlank(line) THEN [result |-> TRUE, lastIndex |-> li]
    ELSE TestAny(<<"header", "codeBlockStart", "blockquote",
                   "unorderedList", "orderedList">>, line, li)

\* The inner loop of lines 374-392 started at index k: the index it stops
\* at and the lastIndex of every pattern afterwards.
\* ParagraphScanAfter is the loop once the condition on line k has
\* returned t.
RECURSIVE ParagraphScan(_, _, _)
RECURSIVE ParagraphScanAfter(_, _, _)
ParagraphScan(lns, k, li) ==
    IF k >= Len(lns) THEN [i |-> k, lastIndex |-> li]
    ELSE Only({ParagraphScanAfter(lns, k, t) :
                  t \in {ParagraphStops(lns[k + 1], li)}})

ParagraphScanAfter(lns, k, t) ==
    IF t.result THEN [i |-> k, lastIndex |-> t.lastIndex]
    ELSE ParagraphScan(lns, k + 1, t.lastIndex)

\* The current line, lines[i]
Line == lines[i + 1]

Scanning == pc = "scan" /\ i < Len(lines)

\* codeBlockEnd.test(line) of line 273
EndTest == RegExpTest("codeBlockEnd", Line, lastIndex["codeBlockEnd"])

\* A guard that lets null and undefined through: text === ""
ReturnsEarlyOnEmptyString(txt) == txt = <<>>

\* if (!text) of line 243 and of part_015 line 244
ReturnsEarly(txt) == ~Truthy(txt)

\* Lines 243-245: the early return for a falsy argument
TokenizeEmpty ==
    /\ pc = "call"
    /\ ReturnsEarly(text)
    /\ tokens' = <<>>
    /\ pc' = "done"
    /\ UNCHANGED <<inlineVars, colorLevel, calls, text, lines, i, inCodeBlock, codeBlockContent,
                   codeBlockLanguage, rendered, lastIndex, earlier>>

\* Lines 247-253: the locals of a call.  text.split raises a TypeError
\* when text is no string.
TokenizeStart ==
    /\ pc = "call"
    /\ ~ReturnsEarly(text)
    /\ IF text \in {Null, Undefined}
       THEN pc' = "raised" /\ UNCHANGED lines
       ELSE pc' = "scan" /\ lines' = Split(text)
    /\ i' = 0
    /\ inCodeBlock' = FALSE
    /\ codeBlockContent' = <<>>
    /\ codeBlockLanguage' = Undefined
    /\ tokens' = <<>>
    /\ UNCHANGED <<inlineVars, colorLevel, calls, text, rendered, lastIndex, earlier>>

\* value || undefined
OrUndefined(value) == IF Truthy(value) THEN value ELSE Undefined

\* Lines 263-271: a fence opener outside a fence
FenceOpen ==
    /\ Scanning /\ ~inCodeBlock
    /\ Dispatch(Line) = "fenceOpen"
    /\ inCodeBlock' = TRUE
    /\ codeBlockLanguage' = OrUndefined(codeBlockStartExec(Line)[2])
    /\ codeBlockContent' = <<>>
    /\ i' = i + 1
    /\ UNCHANGED <<inlineVars, colorLevel, calls, text, pc, lines, tokens, rendered, lastIndex, earlier>>

\* A closing fence that leaves the language of the block in place
FenceCloseKeepsLanguage ==
    /\ Scanning /\ inCodeBlock
    /\ EndTest.result
    /\ tokens' = Append(tokens, CodeToken(codeBlockContent, codeBlockLanguage))
    /\ inCodeBlock' = FALSE
    /\ codeBlockContent' = <<>>
    /\ i' = i + 1
    /\ lastIndex' = [lastIndex EXCEPT !["codeBlockEnd"] = EndTest.lastIndex]
    /\ UNCHANGED <<inlineVars, colorLevel, calls, text, pc, lines, codeBlockLanguage,
                   rendered, earlier>>

\* Lines 273-288: the closing fence
FenceClose ==
    /\ Scanning /\ inCodeBlock
    /\ EndTest.result
    /\ tokens' = Append(tokens, CodeToken(codeBlockContent, codeBlockLanguage))
    /\ inCodeBlock' = FALSE
    /\ codeBlockContent' = <<>>
    /\ codeBlockLanguage' = Undefined
    /\ i' = i + 1
    /\ lastIndex' = [lastIndex EXCEPT !["codeBlockEnd"] = EndTest.lastIndex]
    /\ UNCHANGED <<inlineVars, colorLevel, calls, text, pc, lines, rendered, earlier>>

\* A push that trims the line first
AccumulateTrimmed(content, line) ==
    Append(content, SubSeq(line, 1 + SkipWhile(line, Whitespace, 0), Len(line)))

\* codeBlockContent.push(line) of line 290
Accumulate(content, line) == Append(content, line)

\* Lines 289-292: a line inside the fence
FenceLine ==
    /\ Scanning /\ inCodeBlock
    /\ ~EndTest.result
    /\ codeBlockContent' = Accumulate(codeBlockContent, Line)
    /\ i' = i + 1
    /\ lastIndex' = [lastIndex EXCEPT !["codeBlockEnd"] = EndTest.lastIndex]
    /\ UNCHANGED <<inlineVars, colorLevel, calls, text, pc, lines, inCodeBlock, codeBlockLanguage, tokens,
                   rendered, earlier>>

\* A header branch with tokens.unshift for tokens.push
HeaderUnshifts ==
    /\ Scanning /\ ~inCodeBlock
    /\ Dispatch(Line) = "header"
    /\ tokens' = <<HeaderToken(headerExec(Line))>> \o tokens
    /\ i' = i + 1
    /\ UNCHANGED <<inlineVars, colorLevel, calls, text, pc, lines, inCodeBlock, codeBlockContent,
                   codeBlockLanguage, rendered, lastIndex, earlier>>

\* Lines 295-308
Header ==
    /\ Scanning /\ ~inCodeBlock
    /\ Dispatch(Line) = "header"
    /\ tokens' = Append(tokens, HeaderToken(headerExec(Line)))
    /\ i' = i + 1
    /\ UNCHANGED <<inlineVars, colorLevel, calls, text, pc, lines, inCodeBlock, codeBlockContent,
                   codeBlockLanguage, rendered, lastIndex, earlier>>

\* quoteLines of lines 314-325 for the blockquote lines lns[from..to-1]
QuoteLines(lns, from, to) ==
    [k \in 1..(to - from) |-> blockquoteExec(lns[from + k])[2]]

\* Lines 310-333
Blockquote ==
    /\ Scanning /\ ~inCodeBlock
    /\ Dispatch(Line) = "blockquote"
    /\ i' = BlockquoteEnd(lines, i)
    /\ tokens' = Append(tokens,
          InlineBlockToken("blockquote", Join(QuoteLines(lines, i, i'))))
    /\ UNCHANGED <<inlineVars, colorLevel, calls, text, pc, lines, inCodeBlock, codeBlockContent,
                   codeBlockLanguage, rendered, lastIndex, earlier>>

\* Lines 335-348
UnorderedItem ==
    /\ Scanning /\ ~inCodeBlock
    /\ Dispatch(Line) = "unorderedList"
    /\ tokens' = Append(tokens, UnorderedToken(unorderedListExec(Line)))
    /\ i' = i + 1
    /\ UNCHANGED <<inlineVars, colorLevel, calls, text, pc, lines, inCodeBlock, codeBlockContent,
                   codeBlockLanguage, rendered, lastIndex, earlier>>

\* Lines 350-364
OrderedItem ==
    /\ Scanning /\ ~inCodeBlock
    /\ Dispatch(Line) = "orderedList"
    /\ tokens' = Append(tokens, OrderedToken(orderedListExec(Line)))
    /\ i' = i + 1
    /\ UNCHANGED <<inlineVars, colorLevel, calls, text, pc, lines, inCodeBlock, codeBlockContent,
                   codeBlockLanguage, rendered, lastIndex, earlier>>

\* A blank-line branch that pushes an empty paragraph
BlankLineEmitsParagraph ==
    /\ Scanning /\ ~inCodeBlock
    /\ Dispatch(Line) = "blank"
    /\ tokens' = Append(tokens, InlineBlockToken("paragraph", <<>>))
    /\ i' = i + 1
    /\ UNCHANGED <<inlineVars, colorLevel, calls, text, pc, lines, inCodeBlock, codeBlockContent,
                   codeBlockLanguage, rendered, lastIndex, earlier>>

\* Lines 366-370
BlankLine ==
    /\ Scanning /\ ~inCodeBlock
    /\ Dispatch(Line) = "blank"
    /\ i' = i + 1
    /\ UNCHANGED <<inlineVars, colorLevel, calls, text, pc, lines, inCodeBlock, codeBlockContent,
                   codeBlockLanguage, tokens, rendered, lastIndex, earlier>>

\* A paragraph of several lines that leaves the scan at its last line
ParagraphStepKeepsLastLine(scan) ==
    /\ tokens' = IF scan.i > i
                 THEN Append(tokens,
                         InlineBlockToken("paragraph",
                                          Join(SubSeq(lines, i + 1, scan.i))))
                 ELSE tokens
    /\ i' = IF scan.i > i + 1 THEN scan.i - 1 ELSE scan.i
    /\ lastIndex' = scan.lastIndex

\* Lines 390-401, scan being the outcome of the inner loop: the lines it
\* went over are pushed as one paragraph when there are any
ParagraphStep(scan) ==
    /\ tokens' = IF scan.i > i
                 THEN Append(tokens,
                         InlineBlockToken("paragraph",
                                          Join(SubSeq(lines, i + 1, scan.i))))
                 ELSE tokens
    /\ i' = scan.i
    /\ lastIndex' = scan.lastIndex

\* Lines 372-401
Paragraph ==
    /\ Scanning /\ ~inCodeBlock
    /\ Dispatch(Line) = "paragraph"
    /\ \E scan \in {ParagraphScan(lines, i, lastIndex)} : ParagraphStep(scan)
    /\ UNCHANGED <<inlineVars, colorLevel, calls, text, pc, lines, inCodeBlock, codeBlockContent,
                   codeBlockLanguage, rendered, earlier>>

\* An end of input that drops the open fence
FlushUnclosedNever(toks, inFence, content, language) == toks

\* Lines 404-414: an open fence with content is flushed
FlushUnclosed(toks, inFence, content, language) ==
    IF inFence /\ Len(content) > 0
    THEN Append(toks, CodeToken(content, language))
    ELSE toks

\* Lines 404-416: the loop is over
Finish ==
    /\ pc = "scan" /\ i >= Len(lines)
    /\ tokens' = FlushUnclosed(tokens, inCodeBlock, codeBlockContent,
                               codeBlockLanguage)
    /\ pc' = "done"
    /\ UNCHANGED <<inlineVars, colorLevel, calls, text, lines, i, inCodeBlock, codeBlockContent,
                   codeBlockLanguage, rendered, lastIndex, earlier>>

----------------------------------------------------------------------------
(* renderToken and renderMarkdown (src/unnamed/part_015) *)

\* The escape sequences chalk puts around a styled string, each modelled
\* as one character
Open(style) == "<" \o style \o ">"
Close(style) == "</" \o style \o ">"

\* chalk closes the style before every newline of str and reopens it after
RECURSIVE EncaseNewlines(_, _)
EncaseNewlines(str, style) ==
    IF Len(str) = 0 THEN <<>>
    ELSE (IF str[1] = NL THEN <<Close(style), NL, Open(style)>> ELSE <<str[1]>>)
         \o EncaseNewlines(Tail(str), style)

\* chalk.<style>(str): str itself when colours are off or str is empty
Chalk(style, str) ==
    IF colorLevel = 0 \/ str = <<>> THEN str
    ELSE <<Open(style)>> \o EncaseNewlines(str, style) \o <<Close(style)>>

RECURSIVE Concat(_)
Concat(strs) == IF Len(strs) = 0 THEN <<>> ELSE strs[1] \o Concat(Tail(strs))

\* String(n) for an integer n >= 0
DigitChar(d) ==
    CASE d = 0 -> "0" [] d = 1 -> "1" [] d = 2 -> "2" [] d = 3 -> "3"
      [] d = 4 -> "4" [] d = 5 -> "5" [] d = 6 -> "6" [] d = 7 -> "7"
      [] d = 8 -> "8" [] d = 9 -> "9"

RECURSIVE NumberToString(_)
NumberToString(n) ==
    IF n < 10 THEN <<DigitChar(n)>>
    ELSE NumberToString(n \div 10) \o <<DigitChar(n % 10)>>

\* "  ".repeat(count) for count >= 0
RECURSIVE Repeat(_, _)
Repeat(str, count) == IF count = 0 THEN <<>> ELSE str \o Repeat(str, count - 1)

\* str.trimEnd()
RECURSIVE TrimEnd(_)
TrimEnd(str) ==
    IF Len(str) > 0 /\ str[Len(str)] \in Whitespace
    THEN TrimEnd(SubSeq(str, 1, Len(str) - 1))
    ELSE str

renderInlineToken(token) ==
    CASE token.type = "text"        -> token.content
      [] token.type = "bold"        -> Chalk("bold", token.content)
      [] token.type = "italic"      -> Chalk("italic", token.content)
      [] token.type = "inline_code" -> Chalk("cyan", token.content)
      [] token.type = "link" ->
           token.content \o <<" ", "(">>
              \o Chalk("blue.underline", token.metadata.url) \o <<")">>

renderInlineTokens(toks) ==
    Concat([k \in 1..Len(toks) |-> renderInlineToken(toks[k])])

\* token.children ? renderInlineTokens(token.children) : token.content;
\* an empty array is truthy
ChildrenOrContent(token) ==
    IF "children" \in DOMAIN token
    THEN renderInlineTokens(token.children)
    ELSE token.content

\* A table in which case 4 has fallen through from case 3
HeaderStyleFourAsThree(level) ==
    CASE level = 1 -> "bold.underline"
      [] level = 2 -> "bold"
      [] level \in {3, 4} -> "bold.dim"
      [] level \in {5, 6} -> "dim"

\* The style of a header of the given level (part_015 lines 143-156)
HeaderStyle(level) ==
    CASE level = 1 -> "bold.underline"
      [] level = 2 -> "bold"
      [] level = 3 -> "bold.dim"
      [] level \in {4, 5, 6} -> "dim"

\* A label pushed whether or not the token has a language
LanguageLabelAlways(token) ==
    <<Chalk("dim", <<"[">>
                   \o (IF "metadata" \in DOMAIN token
                       THEN token.metadata.language ELSE Undefined)
                   \o <<"]">>)>>

\* The lines pushed by part_015 lines 171-173: the label, if (language)
LanguageLabel(token) ==
    IF "metadata" \in DOMAIN token /\ Truthy(token.metadata.language)
    THEN <<Chalk("dim", <<"[">> \o token.metadata.language \o <<"]">>)>>
    ELSE <<>>

\* An indentation of one level for every raw character
IndentStrPerCharacter(indent) == Repeat(<<" ", " ">>, indent)

\* "  ".repeat(indent / 2) of line 197: repeat truncates its count
IndentStr(indent) == Repeat(<<" ", " ">>, indent \div 2)

\* The lines of part_015 lines 217-218, before they are joined
QuotedLines(content) ==
    Only({[k \in 1..Len(quoted) |-> Chalk("dim", <<"|", " ">> \o quoted[k])] :
             quoted \in {Split(content)}})

renderToken(token) ==
    CASE token.type = "header" ->
           Chalk(HeaderStyle(token.metadata.level), ChildrenOrContent(token))
      [] token.type = "code_block" ->
           Only({Join(LanguageLabel(token) \o [k \in 1..Len(codeLines) |->
                            Chalk("dim", <<" ", " ">>) \o Chalk("gray", codeLines[k])]) :
                        codeLines \in {Split(token.content)}})
      [] token.type = "list_item" ->
           LET prefix == IF token.metadata.ordered
                         THEN NumberToString(token.metadata.number) \o <<".">>
                         ELSE <<"-">>
           IN  IndentStr(token.metadata.indent) \o prefix \o <<" ">>
                  \o ChildrenOrContent(token)
      [] token.type = "blockquote" ->
           Join(QuotedLines(ChildrenOrContent(token)))
      [] token.type = "paragraph" -> ChildrenOrContent(token)

\* A result array without the empty string of lines 274-277
RECURSIVE RenderedPartsNoParagraphGap(_, _)
RenderedPartsNoParagraphGap(toks, k) ==
    IF k > Len(toks) THEN <<>>
    ELSE <<renderToken(toks[k])>>
         \o (IF toks[k].type \in {"header", "code_block"} THEN << <<>> >>
             ELSE <<>>)
         \o RenderedPartsNoParagraphGap(toks, k + 1)

\* A result array with an empty string after every part but the last
RECURSIVE RenderedPartsGapAfterEvery(_, _)
RenderedPartsGapAfterEvery(toks, k) ==
    IF k > Len(toks) THEN <<>>
    ELSE <<renderToken(toks[k])>>
         \o (IF toks[k].type \in {"header", "code_block"} THEN << <<>> >>
             ELSE IF k < Len(toks) THEN << <<>> >>
             ELSE <<>>)
         \o RenderedPartsGapAfterEvery(toks, k + 1)

\* The result array of lines 261-278 built from toks[k..]
RECURSIVE RenderedParts(_, _)
RenderedParts(toks, k) ==
    IF k > Len(toks) THEN <<>>
    ELSE <<renderToken(toks[k])>>
         \o (IF toks[k].type \in {"header", "code_block"} THEN << <<>> >>
             ELSE IF toks[k].type = "paragraph" /\ k < Len(toks) THEN << <<>> >>
             ELSE <<>>)
         \o RenderedParts(toks, k + 1)

\* renderMarkdown(txt), toks being tokenize(txt)
renderMarkdown(txt, toks) ==
    IF ~Truthy(txt) THEN <<>>
    ELSE IF Len(toks) = 0 THEN txt
    ELSE Only({TrimEnd(joined) :
                  joined \in {Join(result) : result \in {RenderedParts(toks, 1)}}})

\* renderMarkdown once its call of tokenize has returned
Render ==
    /\ pc = "done"
    /\ rendered' = renderMarkdown(text, tokens)
    /\ pc' = "rendered"
    /\ earlier' = IF earlier = <<>>
                  THEN <<[text |-> text, tokens |-> tokens,
                          rendered |-> rendered', others |-> FALSE]>>
                  ELSE IF text # earlier[1].text
                  THEN <<[earlier[1] EXCEPT !.others = TRUE]>>
                  ELSE earlier
    /\ UNCHANGED <<inlineVars, colorLevel, calls, text, lines, i, inCodeBlock, codeBlockContent,
                   codeBlockLanguage, tokens, lastIndex>>

----------------------------------------------------------------------------
(* One call of tokenize and renderMarkdown on every text of at most         *)
(* MaxLines lines drawn from LineSet, and on a missing text.                *)

MaxLines == 3

LineSet ==
    { <<BT, BT, BT>>,
      <<BT, BT, BT, "j", "s">>,
      <<"#", " ", "a">>,
      <<"#", "a">>,
      <<">", " ", "a">>,
      <<">">>,
      <<"-", " ", "a">>,
      <<"1", ".", " ", "a">>,
      <<>>,
      <<" ">>,
      <<"a">>,
      <<"*", BT, "a", BT, "*">> }

TextsOf(lineSet, maxLines) ==
    {Join(ls) : ls \in UNION {[1..n -> lineSet] : n \in 1..maxLines}}

\* The state of the engine before a call on txt
BeforeCall(txt) ==
    /\ text = txt
    /\ pc = "call"
    /\ lines = <<>>
    /\ i = 0
    /\ inCodeBlock = FALSE
    /\ codeBlockContent = <<>>
    /\ codeBlockLanguage = Undefined
    /\ tokens = <<>>
    /\ rendered = <<>>

InlineIdle ==
    /\ inlineText = <<>>
    /\ inlinePc = "idle"
    /\ inlineOut = <<>>

Init ==
    /\ \E txt \in {Null, Undefined} \cup TextsOf(LineSet, MaxLines) : BeforeCall(txt)
    /\ colorLevel \in {0, 1}
    /\ lastIndex = [name \in PatternNames |-> 0]
    /\ calls = 1
    /\ earlier = <<>>
    /\ InlineIdle

Next ==
    \/ TokenizeEmpty
    \/ TokenizeStart
    \/ FenceOpen
    \/ FenceClose
    \/ FenceLine
    \/ Header
    \/ Blockquote
    \/ UnorderedItem
    \/ OrderedItem
    \/ BlankLine
    \/ Paragraph
    \/ Finish
    \/ Render

Spec == Init /\ [][Next]_vars

\* The calls are synchronous: a call that can take a step takes it.
FairSpec == Spec /\ WF_vars(Next)

----------------------------------------------------------------------------
(* At most MaxCalls calls one after the other, each on a text of CallTexts. *)
(* The locals of tokenize are fresh in every call; PATTERNS and the         *)
(* lastIndex of its expressions live on.                                    *)

MaxCalls == 3

CallTexts ==
    { <<>>,
      Join(<< <<BT, BT, BT>>, <<BT, BT, BT>> >>),
      Join(<< <<BT, BT, BT, "j", "s">>, <<"a">>, <<BT, BT, BT>> >>),
      <<"#", " ", "a">>,
      <<">", " ", "a">>,
      <<"-", " ", "a">>,
      <<"1", ".", " ", "a">>,
      Join(<< <<"a">>, <<>>, <<"*", "*", "b", "*", "*">> >>),
      Join(<< <<"a">>, <<>>, <<" ">>, <<"*", "*", "b", "*", "*">> >>),
      Join(<< <<"#", " ", "a">>, <<>> >>),
      Join(<< <<BT, BT, BT, "j", "s">>, <<"a">> >>),
      Join(<< <<BT, BT, BT, "j", "s">>, <<"a">>, <<>> >>),
      Join(<< <<BT, BT, BT, "j", "s">>, <<"a">>, <<BT, BT, BT>>,
              <<BT, BT, BT>>, <<BT, BT, BT, "j", "s">>, <<BT, BT, BT>> >>),
      <<"*", BT, "a", BT, "*">> }

CallsInit ==
    /\ \E txt \in CallTexts : BeforeCall(txt)
    /\ colorLevel \in {0, 1}
    /\ lastIndex = [name \in PatternNames |-> 0]
    /\ calls = 1
    /\ earlier = <<>>
    /\ InlineIdle

\* The next call starts once the call before has returned
NewCall ==
    /\ pc = "rendered"
    /\ calls < MaxCalls
    /\ calls' = calls + 1
    /\ text' \in CallTexts
    /\ pc' = "call"
    /\ lines' = <<>>
    /\ i' = 0
    /\ inCodeBlock' = FALSE
    /\ codeBlockContent' = <<>>
    /\ codeBlockLanguage' = Undefined
    /\ tokens' = <<>>
    /\ rendered' = <<>>
    /\ UNCHANGED <<inlineVars, colorLevel, lastIndex, earlier>>

CallsNext ==
    \/ TokenizeEmpty
    \/ TokenizeStart
    \/ FenceOpen
    \/ FenceClose
    \/ FenceLine
    \/ Header
    \/ Blockquote
    \/ UnorderedItem
    \/ OrderedItem
    \/ BlankLine
    \/ Paragraph
    \/ Finish
    \/ Render
    \/ NewCall

SpecCalls == CallsInit /\ [][CallsNext]_vars

----------------------------------------------------------------------------
(* Calls of parseInlineContent on every string over InlineAlphabet of at    *)
(* most MaxInlineLen characters.                                            *)

MaxInlineLen == 6

InlineAlphabet == {"a", BT, "*", "_", "[", "]", "(", ")"}

InlineInit ==
    /\ \E n \in 0..MaxInlineLen : inlineText \in [1..n -> InlineAlphabet]
    /\ inlinePc = "call"
    /\ inlineOut = <<>>
    /\ BeforeCall(<<>>)
    /\ colorLevel = 0
    /\ lastIndex = [name \in PatternNames |-> 0]
    /\ calls = 0
    /\ earlier = <<>>

ParseInline ==
    /\ inlinePc = "call"
    /\ inlineOut' = parseInlineSpans(inlineText)
    /\ inlinePc' = "done"
    /\ UNCHANGED inlineText
    /\ UNCHANGED blockVars

InlineNext == ParseInline

SpecInline == InlineInit /\ [][InlineNext]_vars

----------------------------------------------------------------------------
(* One call of tokenize on every one-line text made of a head (a run of    *)
(* hashes, or an indented list marker, or a quote mark) and a tail of at    *)
(* most MaxTail characters of TailAlphabet, on every text of at most        *)
(* MaxListLines lines of ListLineSet and on every text of at most           *)
(* MaxStyledLines lines of StyledLineSet, followed by renderMarkdown with   *)
(* and without colours.  None of these texts has a fence.                   *)

MaxHashes == 7
MaxIndent == 3
MaxTail == 3

TailAlphabet == {" ", "\t", "a", ".", "\r"}

Markers == {<<"-">>, <<"*">>, <<"+">>, <<"1">>, <<"1", "2">>, <<"0", "7">>}

Heads ==
    {[k \in 1..h |-> "#"] : h \in 0..MaxHashes}
    \cup {[k \in 1..n |-> " "] \o m : n \in 0..MaxIndent, m \in Markers}
    \cup {<<">">>}

LineTexts ==
    {head \o tail : head \in Heads,
                    tail \in UNION {[1..n -> TailAlphabet] : n \in 0..MaxTail}}

MaxListLines == 3

ListLineSet ==
    { <<"a">>,
      <<"-", " ", "a">>,
      <<" ", " ", "*", " ", "b">>,
      <<"1", "2", ".", " ", "c">>,
      <<>> }

MaxStyledLines == 3

\* Header, blockquote and list lines with inline constructs, whole or
\* running over two lines, and a bare >
StyledLineSet ==
    { <<"#", "#", "#", " ", "*", "a", "*">>,
      <<">", " ", "*", "a", "*">>,
      <<">", " ", "*", "a">>,
      <<">", " ", "*", BT, "a">>,
      <<">", " ", "a", BT, "*">>,
      <<">">>,
      <<" ", " ", " ", "2", ".", " ", "*", "*", "b", "*", "*">> }

LineInit ==
    /\ \E txt \in LineTexts \cup TextsOf(ListLineSet, MaxListLines)
                   \cup TextsOf(StyledLineSet, MaxStyledLines) :
           BeforeCall(txt)
    /\ colorLevel \in {0, 1}
    /\ lastIndex = [name \in PatternNames |-> 0]
    /\ calls = 1
    /\ earlier = <<>>
    /\ InlineIdle

LineNext ==
    \/ TokenizeEmpty
    \/ TokenizeStart
    \/ Header
    \/ Blockquote
    \/ UnorderedItem
    \/ OrderedItem
    \/ BlankLine
    \/ Paragraph
    \/ Finish
    \/ Render

SpecLine == LineInit /\ [][LineNext]_vars

----------------------------------------------------------------------------
(* Properties of parseInlineContent, checked under SpecInline.  A span is   *)
(* the half-open interval [start, end) of source positions of a token.      *)

Disjoint(a, b) == a.end <= b.start \/ b.end <= a.start

IsInlineMatch(span) == span.token.type # "text"

\* C1: the source spans of the inline matches accepted by
\* parseInlineContent are pairwise disjoint, a later construct's candidate
\* being discarded also when it strictly contains an accepted span.
C1_AcceptedSpansDisjoint ==
    inlinePc = "done" =>
        \A a, b \in 1..Len(inlineOut) :
            (a # b /\ IsInlineMatch(inlineOut[a]) /\ IsInlineMatch(inlineOut[b]))
                => Disjoint(inlineOut[a], inlineOut[b])

\* C2: inline code has highest precedence: the characters between the
\* backticks are the content of the inline_code token, and no other token
\* returned by parseInlineContent covers any character of its span.
C2_InlineCodePrecedence ==
    inlinePc = "done" =>
        \A c \in 1..Len(inlineOut) :
            inlineOut[c].token.type = "inline_code" =>
                /\ inlineText[inlineOut[c].start + 1] = BT
                /\ inlineText[inlineOut[c].end] = BT
                /\ inlineOut[c].token.content =
                       SubSeq(inlineText, inlineOut[c].start + 2,
                              inlineOut[c].end - 1)
                /\ \A k \in 1..Len(inlineOut) :
                       k # c => Disjoint(inlineOut[c], inlineOut[k])

\* C3: for a non-empty input the tokens of parseInlineContent, in order,
\* partition the input: the first span starts at 0, each next span starts
\* where the one before ended, and the last ends at the input length.
C3_TokensPartitionInput ==
    (inlinePc = "done" /\ inlineText # <<>>) =>
        /\ Len(inlineOut) > 0
        /\ inlineOut[1].start = 0
        /\ \A k \in 1..(Len(inlineOut) - 1) :
               inlineOut[k + 1].start = inlineOut[k].end
        /\ inlineOut[Len(inlineOut)].end = Len(inlineText)

\* The complete inline constructs, stated on the characters of s (1-based):
\* a delimiter pair around a non-empty run free of the closing character.
HasInlineCode(s) ==
    \E p \in 1..Len(s) :
        /\ s[p] = BT
        /\ \E q \in (p + 2)..Len(s) :
               /\ s[q] = BT
               /\ \A k \in (p + 1)..(q - 1) : s[k] # BT

HasLink(s) ==
    \E p \in 1..Len(s) :
        /\ s[p] = "["
        /\ \E q \in (p + 2)..(Len(s) - 1) :
               /\ s[q] = "]" /\ s[q + 1] = "("
               /\ \A k \in (p + 1)..(q - 1) : s[k] # "]"
               /\ \E r \in (q + 3)..Len(s) :
                      /\ s[r] = ")"
                      /\ \A k \in (q + 2)..(r - 1) : s[k] # ")"

HasBold(s, d) ==
    \E p \in 1..(Len(s) - 1) :
        /\ s[p] = d /\ s[p + 1] = d
        /\ \E q \in (p + 3)..(Len(s) - 1) :
               /\ s[q] = d /\ s[q + 1] = d
               /\ \A k \in (p + 2)..(q - 1) : s[k] # d

HasItalic(s, d) ==
    \E p \in 1..Len(s) :
        /\ s[p] = d
        /\ p > 1 => s[p - 1] # d
        /\ \E q \in (p + 2)..Len(s) :
               /\ s[q] = d
               /\ q < Len(s) => s[q + 1] # d
               /\ \A k \in (p + 1)..(q - 1) : s[k] # d

NoCompleteConstruct(s) ==
    /\ ~HasInlineCode(s)
    /\ ~HasLink(s)
    /\ ~HasBold(s, "*") /\ ~HasBold(s, "_")
    /\ ~HasItalic(s, "*") /\ ~HasItalic(s, "_")

HasDelimiter(s) == \E k \in 1..Len(s) : s[k] \in {"*", "_", BT, "["}

\* C4: for a non-empty string in which no inline construct is complete,
\* parseInlineContent returns exactly one token, a text token whose content
\* is the whole input; for the empty string it returns the empty sequence.
C4_PlainTextIsOneToken ==
    inlinePc = "done" =>
        /\ inlineText = <<>> => inlineOut = <<>>
        /\ (inlineText # <<>> /\ NoCompleteConstruct(inlineText)) =>
               TokensOf(inlineOut) =
                   <<[type |-> "text", content |-> inlineText]>>

\* parseInlineContent has returned on a string with unmatched delimiters
C4_Witness ==
    /\ inlinePc = "done"
    /\ Len(inlineText) >= 3
    /\ HasDelimiter(inlineText)
    /\ NoCompleteConstruct(inlineText)
    /\ Len(inlineOut) = 1

----------------------------------------------------------------------------
(* Properties of tokenize and renderMarkdown *)

\* C5: tokenize returns the empty sequence, without raising, for the empty
\* string and for a missing (null or undefined) input, and renderMarkdown
\* returns the empty string for the empty string.
C5_EmptyOrMissingInput ==
    /\ (text \in {<<>>, Null, Undefined} /\ pc # "call") =>
           (pc \in {"done", "rendered"} /\ tokens = <<>>)
    /\ (text = <<>> /\ pc = "rendered") => rendered = <<>>

\* tokenize has returned on a missing input
C5_Witness == pc = "done" /\ text \in {Null, Undefined} /\ tokens = <<>>

\* C6: every call terminates and returns, never raising, and every
\* iteration of the outer loop of tokenize strictly increases the line
\* index (checked under FairSpec).
C6_TotalAndAdvancing ==
    /\ [](pc # "raised")
    /\ [][(pc = "scan" /\ pc' = "scan") => i' > i]_vars
    /\ <>(pc = "rendered")

\* A call that went through the paragraph branch and a fence has returned
C6_Witness ==
    /\ pc = "rendered"
    /\ Len(lines) >= 3
    /\ inCodeBlock
    /\ \E k \in 1..Len(tokens) : tokens[k].type = "paragraph"

\* C7: a later call on the text of an earlier call returns exactly what the
\* earlier call returned, whatever calls were made in between (checked
\* under SpecCalls).
C7_SameResultOnLaterCall ==
    (earlier # <<>> /\ text = earlier[1].text) =>
        /\ pc \in {"done", "rendered"} => tokens = earlier[1].tokens
        /\ pc = "rendered" => rendered = earlier[1].rendered

\* A call on the first text has returned after a call on another text
C7_Witness ==
    /\ pc = "rendered"
    /\ earlier # <<>>
    /\ earlier[1].others
    /\ text = earlier[1].text
    /\ calls = MaxCalls
    /\ Len(tokens) > 0

----------------------------------------------------------------------------
(* Fences, stated on the lines of the input *)

Fence == <<BT, BT, BT>>

\* line is three backticks followed by word characters only
IsOpener(line) ==
    /\ Len(line) >= 3
    /\ \A k \in 1..Len(line) :
           IF k <= 3 THEN line[k] = BT ELSE line[k] \in WordChars

\* The language word of the opener line
TagOf(line) == SubSeq(line, 4, Len(line))

\* The number (from 1) of the opener of the fence that is open once the
\* first k lines of lns are read, or 0 when no fence is open then.
RECURSIVE OpenerAt(_, _)
OpenerAfter(o, lns, k) ==
    IF o # 0 THEN (IF lns[k] = Fence THEN 0 ELSE o)
    ELSE (IF IsOpener(lns[k]) THEN k ELSE 0)

OpenerAt(lns, k) == IF k = 0 THEN 0 ELSE OpenerAfter(OpenerAt(lns, k - 1), lns, k)

\* token is the code_block token of the lines lns[from..to] whose opener
\* carries the language word tag
IsCodeBlockOf(token, lns, from, to, tag) ==
    /\ token.type = "code_block"
    /\ token.content = Join(SubSeq(lns, from, to))
    /\ IF tag = <<>> THEN "metadata" \notin DOMAIN token
       ELSE "metadata" \in DOMAIN token /\ token.metadata = [language |-> tag]

LastIsCodeBlockOf(toks, lns, o) ==
    /\ Len(toks) > 0
    /\ IsCodeBlockOf(toks[Len(toks)], lns, o + 1, Len(lns), TagOf(lns[o]))

\* C8 as stated: whenever the input ends inside a fence, the returned
\* sequence ends with a code_block whose content is the lines after the
\* opener joined by newline and whose language is the opener's tag.
C8_UnterminatedFenceFlushed ==
    (pc = "done" /\ OpenerAt(lines, Len(lines)) # 0) =>
        LastIsCodeBlockOf(tokens, lines, OpenerAt(lines, Len(lines)))

\* C8 amended: whenever the input ends inside a fence and at least one
\* line follows the opener, the returned sequence ends with a code_block
\* whose content is the lines after the opener joined by newline and whose
\* language is the opener's tag.
C8_UnterminatedFenceWithLinesFlushed ==
    (pc = "done" /\ OpenerAt(lines, Len(lines)) \in 1..(Len(lines) - 1)) =>
        LastIsCodeBlockOf(tokens, lines, OpenerAt(lines, Len(lines)))

\* The input ended two lines after an opener with a language word
C8_Witness ==
    /\ pc = "done"
    /\ Len(lines) = 3
    /\ OpenerAt(lines, 3) = 1
    /\ TagOf(lines[1]) # <<>>
    /\ Len(tokens) = 1

\* The step on line number i + 1 (from 1) inside the fence opened at line
\* o: the closer pushes the code_block of the lines between, without
\* children; any other line is appended as it is and pushes nothing.
FenceStepVerbatim(o) ==
    /\ i' = i + 1
    /\ IF lines[i + 1] = Fence
       THEN /\ Len(tokens') = Len(tokens) + 1
            /\ SubSeq(tokens', 1, Len(tokens)) = tokens
            /\ IsCodeBlockOf(tokens'[Len(tokens')], lines, o + 1, i,
                             TagOf(lines[o]))
            /\ "children" \notin DOMAIN tokens'[Len(tokens')]
       ELSE /\ tokens' = tokens
            /\ codeBlockContent' = SubSeq(lines, o + 1, i + 1)

\* C9: every line between a fence opener and the next bare closer is
\* accumulated verbatim, whatever it looks like; no token is emitted from
\* a line inside a fence, and the code_block token pushed at the closer has
\* the accumulated lines joined by newline as content and no children.
C9_FenceLinesVerbatim ==
    [][(pc = "scan" /\ i < Len(lines) /\ OpenerAt(lines, i) # 0)
           => FenceStepVerbatim(OpenerAt(lines, i))]_vars

\* A fence around a header line and a blank line was closed or flushed
C9_Witness ==
    /\ pc = "done"
    /\ \E k \in 1..Len(tokens) :
           /\ tokens[k].type = "code_block"
           /\ tokens[k].content \in {<<"#", " ", "a">>,
                                     <<"#", " ", "a", NL, " ">>,
                                     <<" ", NL, "#", " ", "a">>}

\* The language words of the fences of lns[1..k] that yield a token, in
\* order: the closed fences, and the fence left open at the end when a
\* line follows its opener.
RECURSIVE ClosedTags(_, _)
ClosedTags(lns, k) ==
    IF k = 0 THEN <<>>
    ELSE ClosedTags(lns, k - 1)
         \o (IF OpenerAt(lns, k - 1) # 0 /\ lns[k] = Fence
             THEN <<TagOf(lns[OpenerAt(lns, k - 1)])>>
             ELSE <<>>)

FenceTags(lns) ==
    ClosedTags(lns, Len(lns))
    \o (IF OpenerAt(lns, Len(lns)) \in 1..(Len(lns) - 1)
        THEN <<TagOf(lns[OpenerAt(lns, Len(lns))])>>
        ELSE <<>>)

IsCodeBlock(token) == token.type = "code_block"

MetadataFollowsTags(code, tags) ==
    /\ Len(code) = Len(tags)
    /\ \A k \in 1..Len(code) :
           IF tags[k] = <<>> THEN "metadata" \notin DOMAIN code[k]
           ELSE /\ "metadata" \in DOMAIN code[k]
                /\ code[k].metadata = [language |-> tags[k]]

\* C10: the metadata of a code_block token is {language: w} exactly when
\* its opener carried the non-empty word w, and is absent when the opener
\* was a bare triple backtick, for closed and unterminated fences alike.
C10_LanguageMetadata ==
    pc = "done" =>
        MetadataFollowsTags(SelectSeq(tokens, IsCodeBlock), FenceTags(lines))

\* A closed fence with a language word and its token
C10_Witness ==
    /\ pc = "done"
    /\ ~inCodeBlock
    /\ \E k \in 1..Len(tokens) :
           /\ tokens[k].type = "code_block"
           /\ "metadata" \in DOMAIN tokens[k]
           /\ tokens[k].metadata.language = <<"j", "s">>

----------------------------------------------------------------------------
(* Line classes, stated on the characters of the line (1-based).           *)

\* The number of # characters the line starts with
LeadingHashes(line) ==
    Cardinality({k \in 1..Len(line) : \A j \in 1..k : line[j] = "#"})

\* line[from..c-1] is a non-empty run of whitespace and line[c..] is a
\* non-empty run of characters outside the set excluded
SplitsAt(line, from, c, excluded) ==
    /\ c > from /\ c <= Len(line)
    /\ \A k \in from..(c - 1) : line[k] \in Whitespace
    /\ \A k \in c..Len(line) : line[k] \notin excluded

\* Whitespace and then content follow the first m characters of the line
HasContentAfter(line, m, excluded) ==
    \E c \in 1..Len(line) : SplitsAt(line, m + 1, c, excluded)

\* The content that follows the first m characters: the whitespace run is
\* as long as a split allows
ContentAfter(line, m, excluded) ==
    SubSeq(line,
           CHOOSE c \in 1..Len(line) :
               /\ SplitsAt(line, m + 1, c, excluded)
               /\ \A d \in (c + 1)..Len(line) :
                      ~SplitsAt(line, m + 1, d, excluded),
           Len(line))

\* 1 to 6 hashes, whitespace, content; the content is any characters, or
\* any characters but those excluded
IsHeaderLine(line, excluded) ==
    /\ LeadingHashes(line) \in 1..6
    /\ HasContentAfter(line, LeadingHashes(line), excluded)

\* The token of the header line
IsHeaderOf(token, line, excluded) ==
    /\ token.type = "header"
    /\ token.metadata = [level |-> LeadingHashes(line)]
    /\ token.metadata.level \in 1..6
    /\ token.content = ContentAfter(line, LeadingHashes(line), excluded)

IsParagraphOf(token, content) ==
    token.type = "paragraph" /\ token.content = content

\* The text is one line
HeaderIff(excluded) ==
    (pc = "done" /\ Len(lines) = 1) =>
        /\ (\E k \in 1..Len(tokens) : tokens[k].type = "header")
               <=> IsHeaderLine(lines[1], excluded)
        /\ IsHeaderLine(lines[1], excluded) =>
               (Len(tokens) = 1 /\ IsHeaderOf(tokens[1], lines[1], excluded))
        /\ (LeadingHashes(lines[1]) >= 1 /\ ~IsHeaderLine(lines[1], excluded)) =>
               (Len(tokens) = 1 /\ IsParagraphOf(tokens[1], lines[1]))

\* C11: outside a fence a line yields a header token iff it starts with 1
\* to 6 hashes followed by whitespace and content; the level is the number
\* of leading hashes, in 1..6; a line starting with a hash run that is no
\* header is handled as paragraph text (checked under SpecLine).
C11_HeaderIffHashesSpaceContent == HeaderIff({})

\* What the header branch does: the same with content free of line
\* terminators, so that a header line ending in a carriage return is
\* paragraph text
HeaderIffContentHasNoLineTerminator == HeaderIff(LineTerminators)

\* line[2..c-1] is a run of whitespace and line[c..] is free of the
\* characters excluded (c = Len(line) + 1 for an empty content)
QuoteSplitsAt(line, c, excluded) ==
    /\ c >= 2 /\ c <= Len(line) + 1
    /\ \A k \in 2..(c - 1) : line[k] \in Whitespace
    /\ \A k \in c..Len(line) : line[k] \notin excluded

\* The line begins with > (and, after optional whitespace, goes on with
\* characters outside the set excluded)
IsQuoteLine(line, excluded) ==
    /\ Len(line) >= 1
    /\ line[1] = ">"
    /\ \E c \in 2..(Len(line) + 1) : QuoteSplitsAt(line, c, excluded)

\* What the line contributes to its blockquote
QuoteContent(line, excluded) ==
    SubSeq(line,
           CHOOSE c \in 2..(Len(line) + 1) :
               /\ QuoteSplitsAt(line, c, excluded)
               /\ \A d \in (c + 1)..(Len(line) + 1) :
                      ~QuoteSplitsAt(line, d, excluded),
           Len(line))

\* The last line (1-based) of the run of quote lines that starts at line k
RECURSIVE QuoteRunEnd(_, _, _)
QuoteRunEnd(lns, k, excluded) ==
    IF k < Len(lns) /\ IsQuoteLine(lns[k + 1], excluded)
    THEN QuoteRunEnd(lns, k + 1, excluded)
    ELSE k

\* The contents of the maximal runs of quote lines outside a fence, from
\* line k on, in source order
RECURSIVE QuoteRuns(_, _, _)
QuoteRuns(lns, k, excluded) ==
    IF k > Len(lns) THEN <<>>
    ELSE IF IsQuoteLine(lns[k], excluded) /\ OpenerAt(lns, k - 1) = 0
    THEN LET e == QuoteRunEnd(lns, k, excluded)
         IN  <<Join([j \in 1..(e - k + 1) |->
                        QuoteContent(lns[k + j - 1], excluded)])>>
             \o QuoteRuns(lns, e + 1, excluded)
    ELSE QuoteRuns(lns, k + 1, excluded)

IsBlockquote(token) == token.type = "blockquote"

ContentsOf(toks) == [k \in 1..Len(toks) |-> toks[k].content]

OneBlockquotePerRun(excluded) ==
    pc = "done" =>
        ContentsOf(SelectSeq(tokens, IsBlockquote))
            = QuoteRuns(lines, 1, excluded)

\* C12: every maximal run of consecutive lines beginning with > (outside a
\* fence) yields exactly one blockquote whose content is the lines'
\* contents joined by newline; a line that is just > contributes an empty
\* line and does not end the run; the run ends at the first line that does
\* not begin with >, a blank line included (checked under SpecLine).
C12_OneBlockquotePerRun == OneBlockquotePerRun({})

\* What the blockquote branch does: the same for the lines that begin with
\* > and have no line terminator after the whitespace that follows it
\* (an invariant of SpecLine and of Spec)
OneBlockquotePerRunOfPatternLines == OneBlockquotePerRun(LineTerminators)

\* The number of whitespace characters the line starts with
LeadingWhitespace(line) ==
    Cardinality({k \in 1..Len(line) : \A j \in 1..k : line[j] \in Whitespace})

\* The line matches the unordered list pattern: optional whitespace, - or
\* *, whitespace, content
IsUnorderedLine(line) ==
    LET n == LeadingWhitespace(line)
    IN  /\ n < Len(line)
        /\ line[n + 1] \in {"-", "*"}
        /\ HasContentAfter(line, n + 1, LineTerminators)

\* The digits that follow the leading whitespace
DigitsEnd(line) ==
    LET n == LeadingWhitespace(line)
    IN  n + Cardinality({k \in 1..(Len(line) - n) :
                            \A j \in 1..k : line[n + j] \in Digits})

\* The line matches the ordered list pattern: optional whitespace, digits,
\* a dot, whitespace, content
IsOrderedLine(line) ==
    LET d == DigitsEnd(line)
    IN  /\ d > LeadingWhitespace(line)
        /\ d < Len(line)
        /\ line[d + 1] = "."
        /\ HasContentAfter(line, d + 1, LineTerminators)

\* The value of a decimal numeral
RECURSIVE Power10(_)
Power10(n) == IF n = 0 THEN 1 ELSE 10 * Power10(n - 1)

DecimalValue(digits) ==
    LET Place(k) == DigitValue(digits[k]) * Power10(Len(digits) - k)
        Sum[k \in 0..Len(digits)] == IF k = 0 THEN 0 ELSE Sum[k - 1] + Place(k)
    IN  Sum[Len(digits)]

\* Content and metadata the claim gives the item of a list line
ListItemOf(line) ==
    LET n == LeadingWhitespace(line)
        d == DigitsEnd(line)
    IN  IF IsUnorderedLine(line)
        THEN [content |-> ContentAfter(line, n + 1, LineTerminators),
              metadata |-> [indent |-> n, ordered |-> FALSE]]
        ELSE [content |-> ContentAfter(line, d + 1, LineTerminators),
              metadata |-> [indent |-> n, ordered |-> TRUE,
                            number |-> DecimalValue(SubSeq(line, n + 1, d))]]

\* The list lines outside a fence, in source order
ListLinesOf(lns) ==
    SelectSeq([k \in 1..Len(lns) |->
                  IF OpenerAt(lns, k - 1) = 0
                     /\ (IsUnorderedLine(lns[k]) \/ IsOrderedLine(lns[k]))
                  THEN lns[k] ELSE Null],
              LAMBDA line : line # Null)

IsListItem(token) == token.type = "list_item"

\* C13: every line matching a list pattern yields exactly one list item,
\* never merged with another item or with a preceding paragraph; indent is
\* the count of leading whitespace characters; - and * give ordered false
\* and no number; digits and a dot give ordered true and the number's
\* integer value (checked under SpecLine).
C13_OneItemPerListLine ==
    pc = "done" =>
        LET items == SelectSeq(tokens, IsListItem)
            listLines == ListLinesOf(lines)
        IN  /\ Len(items) = Len(listLines)
            /\ \A k \in 1..Len(items) :
                   /\ items[k].content = ListItemOf(listLines[k]).content
                   /\ items[k].metadata = ListItemOf(listLines[k]).metadata
                   /\ "number" \in DOMAIN items[k].metadata
                          <=> items[k].metadata.ordered

\* A paragraph line, an indented * item and a two-digit ordered item gave
\* a paragraph and two items
C13_Witness ==
    /\ pc = "done"
    /\ lines = << <<"a">>, <<" ", " ", "*", " ", "b">>,
                  <<"1", "2", ".", " ", "c">> >>
    /\ Len(tokens) = 3
    /\ tokens[1].type = "paragraph" /\ tokens[1].content = <<"a">>
    /\ tokens[2].metadata = [indent |-> 2, ordered |-> FALSE]
    /\ tokens[3].metadata = [indent |-> 0, ordered |-> TRUE, number |-> 12]

\* The line is neither blank nor a header, fence opener, blockquote or
\* list line
IsPlainLine(line) ==
    /\ ~IsBlank(line)
    /\ ~IsHeaderLine(line, LineTerminators)
    /\ ~IsOpener(line)
    /\ ~IsQuoteLine(line, LineTerminators)
    /\ ~IsUnorderedLine(line)
    /\ ~IsOrderedLine(line)

\* Line k of lns is a plain line outside a fence
InParagraph(lns, k) ==
    k \in 1..Len(lns) /\ IsPlainLine(lns[k]) /\ OpenerAt(lns, k - 1) = 0

\* lns[a..b] is a maximal run of plain lines outside a fence
IsParagraphRun(lns, a, b) ==
    /\ a <= b
    /\ \A k \in a..b : InParagraph(lns, k)
    /\ ~InParagraph(lns, a - 1)
    /\ ~InParagraph(lns, b + 1)

\* The maximal runs, as pairs <<a, b>>, in source order
ParagraphRuns(lns) ==
    SelectSeq([a \in 1..Len(lns) |->
                  IF \E b \in a..Len(lns) : IsParagraphRun(lns, a, b)
                  THEN <<a, CHOOSE b \in a..Len(lns) : IsParagraphRun(lns, a, b)>>
                  ELSE <<>>],
              LAMBDA run : run # <<>>)

\* The output positions of the paragraph tokens
ParagraphPositions ==
    SelectSeq([k \in 1..Len(tokens) |-> k],
              LAMBDA k : tokens[k].type = "paragraph")

\* C14: outside a fence every maximal run of consecutive lines that are
\* neither blank nor header, fence opener, blockquote or list lines yields
\* exactly one paragraph whose content is the lines joined by newline; the
\* run stops before the first blank or block line or at the end of the
\* input; two paragraphs adjacent in the output have a blank line between
\* them in the source.
C14_OneParagraphPerRun ==
    pc = "done" =>
        LET runs == ParagraphRuns(lines)
            at == ParagraphPositions
        IN  /\ Len(at) = Len(runs)
            /\ \A m \in 1..Len(runs) :
                   tokens[at[m]].content
                       = Join(SubSeq(lines, runs[m][1], runs[m][2]))
            /\ \A m \in 1..(Len(runs) - 1) :
                   at[m + 1] = at[m] + 1 =>
                       \E k \in (runs[m][2] + 1)..(runs[m + 1][1] - 1) :
                           IsBlank(lines[k])

\* Two paragraphs with a whitespace-only line between them
C14_Witness ==
    /\ pc = "done"
    /\ lines = << <<"a">>, <<" ">>, <<"#", "a">> >>
    /\ Len(tokens) = 2
    /\ tokens[1].type = "paragraph" /\ tokens[1].content = <<"a">>
    /\ tokens[2].type = "paragraph" /\ tokens[2].content = <<"#", "a">>

----------------------------------------------------------------------------
(* Blank lines, checked under SpecCalls: the first call is on earlier[1].text *)
(* and the call at hand on text.                                             *)

\* to is from with one more blank line, at position p + 1, next to a blank
\* line of from
InsertedBlankAt(from, to, p) ==
    /\ Len(to) = Len(from) + 1
    /\ p \in 0..Len(from)
    /\ IsBlank(to[p + 1])
    /\ SubSeq(to, 1, p) = SubSeq(from, 1, p)
    /\ SubSeq(to, p + 2, Len(to)) = SubSeq(from, p + 1, Len(from))
    /\ \/ p >= 1 /\ IsBlank(from[p])
       \/ p < Len(from) /\ IsBlank(from[p + 1])

\* to is from with blank lines appended
AppendedBlanks(from, to) ==
    /\ Len(to) > Len(from)
    /\ SubSeq(to, 1, Len(from)) = from
    /\ \A k \in (Len(from) + 1)..Len(to) : IsBlank(to[k])

\* The call at hand has returned, and so has a first call
BothReturned == earlier # <<>> /\ pc \in {"done", "rendered"}

\* A step over a blank line outside a fence leaves the tokens alone
BlankEmitsNoToken ==
    (Scanning /\ ~inCodeBlock /\ IsBlank(Line)) => tokens' = tokens

\* C15: outside a fence a blank line emits no token and only separates
\* blocks: for every input, inserting blank lines next to an existing blank
\* line, or appending blank lines at the end of the input, leaves the
\* tokens unchanged.  The blank lines are outside a fence: no fence is open
\* where they are put.
C15_BlankLinesChangeNothing ==
    /\ [][BlankEmitsNoToken]_vars
    /\ [](BothReturned =>
             LET from == Split(earlier[1].text)
                 to == Split(text)
             IN  (\/ \E p \in 0..Len(from) :
                         InsertedBlankAt(from, to, p) /\ OpenerAt(from, p) = 0
                  \/ AppendedBlanks(from, to) /\ OpenerAt(from, Len(from)) = 0)
                     => tokens = earlier[1].tokens)

\* A call on a text with two blank lines between its paragraphs has
\* returned after a call on the text with one
C15_Witness ==
    /\ BothReturned
    /\ Split(earlier[1].text) = << <<"a">>, <<>>, <<"*", "*", "b", "*", "*">> >>
    /\ lines = << <<"a">>, <<>>, <<" ">>, <<"*", "*", "b", "*", "*">> >>
    /\ Len(tokens) = 2

----------------------------------------------------------------------------
(* The blocks of a text, stated on its lines: what kind of block starts at  *)
(* each line and which lines it takes.                                      *)

Outside(lns, k) == OpenerAt(lns, k - 1) = 0

\* The first closing fence after line o, or 0
CloserOf(lns, o) ==
    IF \E c \in (o + 1)..Len(lns) : lns[c] = Fence
    THEN CHOOSE c \in (o + 1)..Len(lns) :
             lns[c] = Fence /\ \A d \in (o + 1)..(c - 1) : lns[d] # Fence
    ELSE 0

IsListLine(line) == IsUnorderedLine(line) \/ IsOrderedLine(line)

QuoteAt(lns, k) ==
    k \in 1..Len(lns) /\ IsQuoteLine(lns[k], LineTerminators) /\ Outside(lns, k)

NoBlock == [type |-> "none"]

\* The block that starts at line k: its kind, the lines it takes and its
\* content; NoBlock when no block starts at line k
BlockAt(lns, k) ==
    IF ~Outside(lns, k) THEN NoBlock
    ELSE IF IsOpener(lns[k])
    THEN LET c == CloserOf(lns, k)
         IN  IF c # 0
             THEN [type |-> "code_block", first |-> k, last |-> c,
                   content |-> Join(SubSeq(lns, k + 1, c - 1))]
             ELSE IF k < Len(lns)
             THEN [type |-> "code_block", first |-> k, last |-> Len(lns),
                   content |-> Join(SubSeq(lns, k + 1, Len(lns)))]
             ELSE NoBlock
    ELSE IF IsHeaderLine(lns[k], LineTerminators)
    THEN [type |-> "header", first |-> k, last |-> k,
          content |-> ContentAfter(lns[k], LeadingHashes(lns[k]), LineTerminators)]
    ELSE IF IsListLine(lns[k])
    THEN [type |-> "list_item", first |-> k, last |-> k,
          content |-> ListItemOf(lns[k]).content]
    ELSE IF QuoteAt(lns, k) /\ ~QuoteAt(lns, k - 1)
    THEN LET e == QuoteRunEnd(lns, k, LineTerminators)
         IN  [type |-> "blockquote", first |-> k, last |-> e,
              content |-> Join([j \in 1..(e - k + 1) |->
                                   QuoteContent(lns[k + j - 1], LineTerminators)])]
    ELSE IF \E b \in k..Len(lns) : IsParagraphRun(lns, k, b)
    THEN LET e == CHOOSE b \in k..Len(lns) : IsParagraphRun(lns, k, b)
         IN  [type |-> "paragraph", first |-> k, last |-> e,
              content |-> Join(SubSeq(lns, k, e))]
    ELSE NoBlock

\* The blocks of the text, in source order
BlocksOf(lns) ==
    SelectSeq([k \in 1..Len(lns) |-> BlockAt(lns, k)],
              LAMBDA block : block.type # "none")

\* C16: tokenize preserves source order: token number a is made of the
\* lines of block number a of the source, and for a < b every line of
\* block a precedes every line of block b.
C16_TokensInSourceOrder ==
    pc = "done" =>
        LET blocks == BlocksOf(lines)
        IN  /\ Len(tokens) = Len(blocks)
            /\ \A a \in 1..Len(tokens) :
                   /\ tokens[a].type = blocks[a].type
                   /\ tokens[a].content = blocks[a].content
            /\ \A a, b \in 1..Len(blocks) :
                   a < b => blocks[a].last < blocks[b].first

\* A paragraph, a header and a list item, each from its own line
C16_Witness ==
    /\ pc = "done"
    /\ lines = << <<"a">>, <<"#", " ", "a">>, <<"-", " ", "a">> >>
    /\ Len(tokens) = 3
    /\ tokens[1].type = "paragraph"
    /\ tokens[2].type = "header"
    /\ tokens[3].type = "list_item"

----------------------------------------------------------------------------
(* The shape of a token *)

InlineEligible == {"header", "list_item", "blockquote", "paragraph"}

HasChildrenIffInlineEligible(token) ==
    /\ "children" \in DOMAIN token <=> token.type \in InlineEligible
    /\ "children" \in DOMAIN token =>
           /\ token.children = parseInlineContent(token.content)
           /\ token.content # <<>> => token.children # <<>>

MetadataMatchesKind(token) ==
    CASE token.type = "header" ->
             "metadata" \in DOMAIN token /\ DOMAIN token.metadata = {"level"}
      [] token.type = "code_block" ->
             "metadata" \in DOMAIN token =>
                 DOMAIN token.metadata = {"language"}
      [] token.type = "list_item" ->
             /\ "metadata" \in DOMAIN token
             /\ DOMAIN token.metadata \in {{"indent", "ordered"},
                                           {"indent", "ordered", "number"}}
      [] token.type \in {"blockquote", "paragraph"} ->
             "metadata" \notin DOMAIN token
      [] OTHER -> FALSE

\* C17: every token of tokenize has children iff its kind is header, list
\* item, blockquote or paragraph (never a code block), and metadata of its
\* kind: {level} for a header, {language} or none for a code block,
\* {indent, ordered, number?} for a list item, none for a blockquote or a
\* paragraph.
C17_TokenShape ==
    \A k \in 1..Len(tokens) :
        HasChildrenIffInlineEligible(tokens[k]) /\ MetadataMatchesKind(tokens[k])

\* A code block with a language, then a blockquote
C17_Witness ==
    /\ pc = "done"
    /\ Len(tokens) = 2
    /\ tokens[1].type = "code_block" /\ "metadata" \in DOMAIN tokens[1]
    /\ tokens[2].type = "blockquote" /\ tokens[2].children # <<>>

----------------------------------------------------------------------------
(* The string renderMarkdown returns, styling disabled (colorLevel = 0) *)

EndsWithWhitespace(str) ==
    Len(str) > 0 /\ str[Len(str)] \in {" ", "\t", NL}

\* C18: for every input the string render returns, styling disabled, has
\* its trailing whitespace trimmed: it never ends with a space, a tab or a
\* newline.
C18_NoTrailingWhitespace ==
    (pc = "rendered" /\ colorLevel = 0) => ~EndsWithWhitespace(rendered)

\* What renderMarkdown does: the same whenever tokenize returned a token;
\* a text without tokens is returned as it is
NoTrailingWhitespaceWhenTokens ==
    (pc = "rendered" /\ colorLevel = 0 /\ tokens # <<>>) =>
        ~EndsWithWhitespace(rendered)

\* The text has no markdown syntax: no line matches a block pattern and no
\* inline construct is complete
NoMarkdown(txt) ==
    /\ \A k \in 1..Len(Split(txt)) :
           IsBlank(Split(txt)[k]) \/ IsPlainLine(Split(txt)[k])
    /\ NoCompleteConstruct(txt)

IsString(txt) == txt \notin {Null, Undefined}

\* C19 as stated: for every input without markdown syntax render returns
\* the input unchanged, up to trimming of trailing whitespace.
C19_PlainTextUnchanged ==
    (pc = "rendered" /\ IsString(text) /\ NoMarkdown(text)) =>
        TrimEnd(rendered) = TrimEnd(text)

\* Every blank line that is followed by text is empty and comes right
\* after a line of text
BlankLinesOnlySeparate(lns) ==
    \A k \in 1..Len(lns) :
        (IsBlank(lns[k]) /\ \E j \in (k + 1)..Len(lns) : ~IsBlank(lns[j])) =>
            lns[k] = <<>> /\ k > 1 /\ ~IsBlank(lns[k - 1])

\* C19, amended: for every input without markdown syntax in which every
\* blank line that is followed by text is empty and comes right after a
\* line of text, render returns the input unchanged, up to trimming of
\* trailing whitespace.
C19_PlainTextWithSingleEmptyLinesUnchanged ==
    (pc = "rendered" /\ IsString(text) /\ NoMarkdown(text)
        /\ BlankLinesOnlySeparate(Split(text))) =>
        TrimEnd(rendered) = TrimEnd(text)

\* Two plain paragraphs with one empty line between them were rendered
C19_Witness ==
    /\ pc = "rendered"
    /\ text = <<"a", NL, NL, "#", "a">>
    /\ rendered = text
    /\ NoMarkdown(text)
    /\ BlankLinesOnlySeparate(Split(text))

\* What stands between block k and the next block: a newline and one
\* blank line after a header, a code block or a paragraph, a newline alone
\* after a list item or a blockquote
SeparatorAfter(token) ==
    IF token.type \in {"header", "code_block", "paragraph"}
    THEN <<NL, NL>>
    ELSE <<NL>>

\* The renderings of toks[k..], each followed by its separator when another
\* block follows
RECURSIVE BlocksWithSeparators(_, _)
BlocksWithSeparators(toks, k) ==
    IF k > Len(toks) THEN <<>>
    ELSE renderToken(toks[k])
         \o (IF k < Len(toks) THEN SeparatorAfter(toks[k]) ELSE <<>>)
         \o BlocksWithSeparators(toks, k + 1)

----------------------------------------------------------------------------
(* What renderToken makes of each kind of token, read off rendered for the   *)
(* texts of SpecLine and Spec that give one token.                           *)

\* The styles of the claim: strong emphasis is bold
StyleOfLevel ==
    [level \in 1..6 |->
        IF level = 1 THEN "bold.underline"
        ELSE IF level = 2 THEN "bold"
        ELSE IF level = 3 THEN "bold.dim"
        ELSE "dim"]

OneTokenRendered(type) ==
    pc = "rendered" /\ Len(tokens) = 1 /\ tokens[1].type = type

\* C21: a header is rendered as its inline children rendered to one string
\* in the style of its level alone: 1 bold and underline, 2 bold, 3 bold
\* and dim, 4 to 6 dim; no other level comes from tokenize (checked under
\* SpecLine).
C21_HeaderStyledByLevel ==
    OneTokenRendered("header") =>
        /\ tokens[1].metadata.level \in 1..6
        /\ tokens[1].metadata.level = LeadingHashes(lines[1])
        /\ rendered = TrimEnd(Chalk(StyleOfLevel[tokens[1].metadata.level],
                                    renderInlineTokens(tokens[1].children)))

\* A level 3 header with an italic child was rendered with colours
C21_Witness ==
    /\ OneTokenRendered("header")
    /\ colorLevel = 1
    /\ tokens[1].metadata.level = 3
    /\ tokens[1].children = <<[type |-> "italic", content |-> <<"a">>]>>
    /\ rendered = <<Open("bold.dim"), Open("italic"), "a", Close("italic"),
                    Close("bold.dim")>>

\* The number of newlines of str
Newlines(str) == Cardinality({k \in 1..Len(str) : str[k] = NL})

\* The lines of a string: the runs between its newlines
LinesOfString(str) ==
    LET ends == {0} \cup {k \in 1..Len(str) : str[k] = NL} \cup {Len(str) + 1}
        After(e) == CHOOSE f \in ends : f > e /\ \A g \in ends : g > e => f <= g
        Start[n \in 1..(Newlines(str) + 1)] ==
            IF n = 1 THEN 0 ELSE After(Start[n - 1])
    IN  [n \in 1..(Newlines(str) + 1) |->
            SubSeq(str, Start[n] + 1, After(Start[n]) - 1)]

\* C22: a code block is rendered as a [language] label line iff its opener
\* carries a language word, then every line of its content on a line of its
\* own behind the two-space indent, in order and as it is; the rendered
\* lines are as many as the content lines, plus one with a label.
C22_CodeBlockLines ==
    OneTokenRendered("code_block") =>
        LET tag == TagOf(lines[BlocksOf(lines)[1].first])
            label == IF tag # <<>>
                     THEN <<Chalk("dim", <<"[">> \o tag \o <<"]">>)>>
                     ELSE <<>>
            content == LinesOfString(tokens[1].content)
            expected == label \o [k \in 1..Len(content) |->
                            Chalk("dim", <<" ", " ">>) \o Chalk("gray", content[k])]
        IN  /\ rendered = TrimEnd(Join(expected))
            /\ Len(expected) = Len(content) + (IF tag # <<>> THEN 1 ELSE 0)
            /\ colorLevel = 1 => Newlines(rendered) + 1 = Len(expected)

\* A fence with a language word around a line with inline marks was
\* rendered with colours
C22_Witness ==
    /\ OneTokenRendered("code_block")
    /\ colorLevel = 1
    /\ lines = << <<BT, BT, BT, "j", "s">>, <<"*", BT, "a", BT, "*">>, Fence >>
    /\ rendered = <<Open("dim"), "[", "j", "s", "]", Close("dim"), NL,
                    Open("dim"), " ", " ", Close("dim"),
                    Open("gray"), "*", BT, "a", BT, "*", Close("gray")>>

\* A numeral without its leading zeros
RECURSIVE WithoutLeadingZeros(_)
WithoutLeadingZeros(digits) ==
    IF Len(digits) > 1 /\ digits[1] = "0"
    THEN WithoutLeadingZeros(Tail(digits))
    ELSE digits

\* What the claim puts before the content of the item of a list line
ItemPrefix(line) ==
    LET n == LeadingWhitespace(line)
    IN  [k \in 1..(n - (n % 2)) |-> " "]
        \o (IF IsUnorderedLine(line) THEN <<"-">>
            ELSE WithoutLeadingZeros(SubSeq(line, n + 1, DigitsEnd(line)))
                 \o <<".">>)
        \o <<" ">>

\* C23: a list item is rendered as indentation, then - when unordered or
\* the number and a dot when ordered, then one space and the rendered
\* inline children; the indentation is 2 * floor(indent / 2) spaces for
\* every raw indent, odd ones included (checked under SpecLine).
C23_ListItemPrefix ==
    OneTokenRendered("list_item") =>
        rendered = TrimEnd(ItemPrefix(ListLinesOf(lines)[1])
                           \o renderInlineTokens(tokens[1].children))

\* An ordered item behind three spaces was rendered behind two
C23_Witness ==
    /\ OneTokenRendered("list_item")
    /\ colorLevel = 1
    /\ tokens[1].metadata = [indent |-> 3, ordered |-> TRUE, number |-> 2]
    /\ rendered = <<" ", " ", "2", ".", " ", Open("bold"), "b", Close("bold")>>

\* C24: a blockquote merged from n source lines is rendered as exactly n
\* lines, each with the marker of its own before it, the lines that came
\* from a bare > included and whatever inline constructs the content has
\* (checked under SpecLine).
C24_OneMarkedLinePerQuoteLine ==
    OneTokenRendered("blockquote") =>
        LET n == BlocksOf(lines)[1].last - BlocksOf(lines)[1].first + 1
            inner == LinesOfString(renderInlineTokens(tokens[1].children))
            expected == [k \in 1..Len(inner) |->
                            Chalk("dim", <<"|", " ">> \o inner[k])]
        IN  /\ Len(inner) = n
            /\ rendered = TrimEnd(Join(expected))
            /\ Newlines(rendered) + 1 = n

----------------------------------------------------------------------------
(* hasOverlap and the tokens of parseInlineContent, checked under SpecInline *)

\* The matches accepted for inlineText, as hasOverlap reads them
AcceptedMatches ==
    LET spans == SelectSeq(inlineOut, IsInlineMatch)
    IN  [k \in 1..Len(spans) |->
            [index |-> spans[k].start, length |-> spans[k].end - spans[k].start]]

\* [index, index + length) and the span of m have a position in common
SharePosition(index, length, m) ==
    \E pos \in index..(index + length - 1) :
        pos >= m.index /\ pos < m.index + m.length

\* C25: hasOverlap(match, existing) is true iff the candidate's span
\* [index, index + length) shares a position with the span of an accepted
\* match, for every candidate span: inside, partially overlapping or
\* strictly containing an accepted span; spans that only touch do not
\* overlap.
C25_HasOverlapIffSharedPosition ==
    inlinePc = "done" =>
        \A index \in 0..Len(inlineText) :
            \A length \in 1..(Len(inlineText) - index) :
                hasOverlap(index, length, AcceptedMatches)
                    <=> \E k \in 1..Len(AcceptedMatches) :
                            SharePosition(index, length, AcceptedMatches[k])

\* What hasOverlap decides: whether the candidate's first position or its
\* last position lies in an accepted span
HasOverlapIffAnEndInside ==
    inlinePc = "done" =>
        \A index \in 0..Len(inlineText) :
            \A length \in 1..(Len(inlineText) - index) :
                hasOverlap(index, length, AcceptedMatches)
                    <=> \E k \in 1..Len(AcceptedMatches) :
                            \/ SharePosition(index, 1, AcceptedMatches[k])
                            \/ SharePosition(index + length - 1, 1,
                                             AcceptedMatches[k])

\* Position pos (from 1) of inlineText holds the character d
HasAt(pos, d) == pos \in 1..Len(inlineText) /\ inlineText[pos] = d

\* The span is delimited by single characters d: d opens and closes it,
\* and no d stands right before or right after either of them
SingleDelimited(span, d) ==
    /\ HasAt(span.start + 1, d) /\ HasAt(span.end, d)
    /\ span.end - span.start >= 3
    /\ ~HasAt(span.start, d) /\ ~HasAt(span.start + 2, d)
    /\ ~HasAt(span.end - 1, d) /\ ~HasAt(span.end + 1, d)

\* C26: every italic token of parseInlineContent is delimited by single *
\* or single _ characters, neither delimiter having another character of
\* its kind right before or after it; a ** or __ run is never an italic
\* delimiter, and **x** gives a bold token and no italic token.
C26_ItalicSingleDelimited ==
    inlinePc = "done" =>
        /\ \A k \in 1..Len(inlineOut) :
               inlineOut[k].token.type = "italic" =>
                   /\ SingleDelimited(inlineOut[k], "*")
                          \/ SingleDelimited(inlineOut[k], "_")
                   /\ inlineOut[k].token.content
                          = SubSeq(inlineText, inlineOut[k].start + 2,
                                   inlineOut[k].end - 1)
        /\ \A d \in {"*", "_"} :
               inlineText = <<d, d, "a", d, d>> =>
                   TokensOf(inlineOut) = <<[type |-> "bold", content |-> <<"a">>]>>

\* An italic token was returned for a text that also has a doubled
\* delimiter of its kind
C26_Witness ==
    /\ inlinePc = "done"
    /\ inlineText = <<"*", "*", "a", "*", "a", "*">>
    /\ \E k \in 1..Len(inlineOut) :
           /\ inlineOut[k].token = [type |-> "italic", content |-> <<"a">>]
           /\ inlineOut[k].start = 3

----------------------------------------------------------------------------
(* The state the scan of tokenize carries from line to line, checked under  *)
(* SpecCalls                                                                *)

\* The language an opener line gives its block
LanguageOf(line) == IF TagOf(line) = <<>> THEN Undefined ELSE TagOf(line)

\* The flag changes on a fence line only (and is fresh in every call); an
\* opener outside a fence enters it, a bare fence inside leaves it and
\* resets the lines and the language, any other line inside is accumulated
FenceStateStep ==
    /\ inCodeBlock' # inCodeBlock =>
           \/ pc = "rendered" /\ pc' = "call"
           \/ /\ Scanning /\ i' = i + 1
              /\ IF inCodeBlock THEN Line = Fence ELSE IsOpener(Line)
    /\ (Scanning /\ ~inCodeBlock /\ IsOpener(Line)) =>
           /\ inCodeBlock'
           /\ codeBlockContent' = <<>>
           /\ codeBlockLanguage' = LanguageOf(Line)
    /\ (Scanning /\ ~inCodeBlock /\ ~IsOpener(Line)) =>
           UNCHANGED <<inCodeBlock, codeBlockContent, codeBlockLanguage>>
    /\ (Scanning /\ inCodeBlock /\ Line = Fence) =>
           /\ ~inCodeBlock'
           /\ codeBlockContent' = <<>>
           /\ codeBlockLanguage' = Undefined
    /\ (Scanning /\ inCodeBlock /\ Line # Fence) =>
           /\ inCodeBlock'
           /\ codeBlockContent' = Append(codeBlockContent, Line)
           /\ codeBlockLanguage' = codeBlockLanguage
           /\ tokens' = tokens

\* What is carried after i lines is given by the fence open then: nothing
\* outside a fence, the lines after the opener and its language inside;
\* the expressions of PATTERNS, none of them global, carry no position
FenceStateOfOpenFence ==
    pc = "scan" =>
        LET o == OpenerAt(lines, i)
        IN  /\ lastIndex = [name \in PatternNames |-> 0]
            /\ inCodeBlock = (o # 0)
            /\ codeBlockContent = (IF o = 0 THEN <<>> ELSE SubSeq(lines, o + 1, i))
            /\ codeBlockLanguage = (IF o = 0 THEN Undefined ELSE LanguageOf(lines[o]))

\* Every code_block token has the lines and the language of its own fence
CodeBlocksOfOwnFence ==
    pc = "done" =>
        LET blocks == BlocksOf(lines)
        IN  /\ Len(tokens) = Len(blocks)
            /\ \A a \in 1..Len(tokens) :
                   blocks[a].type = "code_block" =>
                       /\ tokens[a].type = "code_block"
                       /\ tokens[a].content = blocks[a].content
                       /\ IF TagOf(lines[blocks[a].first]) = <<>>
                          THEN "metadata" \notin DOMAIN tokens[a]
                          ELSE tokens[a].metadata
                                   = [language |-> TagOf(lines[blocks[a].first])]

\* C27: the in-fence flag is the only state carried across lines and it
\* changes only on fence lines: outside a fence every opener line, bare or
\* with a language word, enters the fence; inside a fence only a bare
\* triple-backtick line leaves it and a triple-backtick line with a
\* language word is accumulated as content; on leaving, the accumulated
\* lines and the language are reset, so a later bare-opened block never
\* inherits the language or the lines of an earlier block.
C27_FenceStateCarried ==
    /\ [][FenceStateStep]_vars
    /\ [](FenceStateOfOpenFence /\ CodeBlocksOfOwnFence)

\* A block with a language was closed, and a later bare-opened block
\* holding an opener line with a language word was returned without it
C27_Witness ==
    /\ pc = "done"
    /\ Len(lines) = 6
    /\ tokens = << [type |-> "code_block", content |-> <<"a">>,
                    metadata |-> [language |-> <<"j", "s">>]],
                   [type |-> "code_block", content |-> <<BT, BT, BT, "j", "s">>] >>

----------------------------------------------------------------------------
(* Every line is consumed once, checked under Spec *)

\* The blocks of blocks that take line k
Covering(blocks, k) ==
    {a \in 1..Len(blocks) : blocks[a].first <= k /\ k <= blocks[a].last}

\* A step of the scan goes forward over the lines from i on: over one line
\* that gives no token now (an opener, a blank line, a line accumulated in
\* the fence), over the closing fence that gives the code_block of the
\* accumulated lines, or over the lines i..i'-1 the one new token is made of
ConsumesLines ==
    /\ i' >= i /\ i' <= Len(lines')
    /\ Len(tokens') >= Len(tokens)
    /\ i' > i =>
           /\ Scanning /\ lines' = lines
           /\ Len(tokens') - Len(tokens) \in {0, 1}
           /\ Len(tokens') = Len(tokens) =>
                  /\ i' = i + 1
                  /\ IF inCodeBlock THEN Line # Fence
                     ELSE IsOpener(Line) \/ IsBlank(Line)
           /\ (Len(tokens') > Len(tokens) /\ inCodeBlock) =>
                  i' = i + 1 /\ Line = Fence
           /\ (Len(tokens') > Len(tokens) /\ ~inCodeBlock) =>
                  LET block == BlockAt(lines, i + 1)
                  IN  /\ block.type = tokens'[Len(tokens')].type
                      /\ block.first = i + 1 /\ block.last = i'
                      /\ block.content = tokens'[Len(tokens')].content

\* Once tokenize has returned, the scan has gone over every line, every
\* token is made of the lines of its own block, no line is in two blocks,
\* and a line in no block is a blank line or an opener nothing follows
EveryLineInOneToken ==
    pc = "done" =>
        LET blocks == BlocksOf(lines)
        IN  /\ i = Len(lines)
            /\ Len(tokens) <= Len(lines)
            /\ Len(tokens) = Len(blocks)
            /\ \A a \in 1..Len(tokens) :
                   /\ tokens[a].type = blocks[a].type
                   /\ tokens[a].content = blocks[a].content
            /\ \A k \in 1..Len(lines) :
                   /\ Cardinality(Covering(blocks, k)) <= 1
                   /\ Covering(blocks, k) = {} =>
                          \/ IsBlank(lines[k])
                          \/ k = Len(lines) /\ IsOpener(lines[k])

\* C28: tokenize consumes every input line exactly once: the scan index
\* never decreases and never skips a line, every line is a fence
\* delimiter, a blank separator or part of exactly one emitted token, the
\* number of tokens returned never exceeds the number of lines, and no
\* line is in two tokens.
C28_EveryLineConsumedOnce ==
    /\ [][ConsumesLines]_vars
    /\ []EveryLineInOneToken

\* A paragraph of two lines and an opener nothing follows were consumed,
\* and one token was returned
C28_Witness ==
    /\ pc = "done"
    /\ lines = << <<"a">>, <<"a">>, <<BT, BT, BT>> >>
    /\ i = 3
    /\ Len(tokens) = 1 /\ tokens[1].content = <<"a", NL, "a">>

\* Token number k of inlineOut is a text token
IsTextAt(k) == k \in 1..Len(inlineOut) /\ inlineOut[k].token.type = "text"

\* The text token number k is the non-empty stretch of the text from the
\* end of the token before it (or the start of the text) up to the match
\* after it (or the end of the text)
IsGapText(k) ==
    /\ inlineOut[k].start < inlineOut[k].end
    /\ inlineOut[k].token.content
           = SubSeq(inlineText, inlineOut[k].start + 1, inlineOut[k].end)
    /\ inlineOut[k].start = (IF k = 1 THEN 0 ELSE inlineOut[k - 1].end)
    /\ ~IsTextAt(k - 1)
    /\ IF k = Len(inlineOut) THEN inlineOut[k].end = Len(inlineText)
       ELSE inlineOut[k].end = inlineOut[k + 1].start

\* C29: parseInlineContent never emits a token with empty content: a text
\* token is emitted only for a non-empty gap between matches or after the
\* last match, every inline_code, bold, italic and link token has
\* non-empty content, every link token carries a non-empty url, and no
\* token of another kind carries metadata.
C29_NoEmptyInlineToken ==
    inlinePc = "done" =>
        \A k \in 1..Len(inlineOut) :
            LET token == inlineOut[k].token
            IN  /\ token.content # <<>>
                /\ token.type = "text" => IsGapText(k)
                /\ IF token.type = "link"
                   THEN /\ DOMAIN token = {"type", "content", "metadata"}
                        /\ DOMAIN token.metadata = {"url"}
                        /\ token.metadata.url # <<>>
                   ELSE DOMAIN token = {"type", "content"}

\* A text token for the gap before a match and one after the last match
C29_Witness ==
    /\ inlinePc = "done"
    /\ inlineText = <<"a", "[", "a", "]", "(", "a", ")">>
       \/ inlineText = <<"a", "*", "a", "*", "a">>
    /\ Len(inlineOut) = 3
    /\ IsTextAt(1) /\ ~IsTextAt(2) /\ IsTextAt(3)

====
